---- MODULE Spec2Model ----
(***************************************************************************)
(* Funding-rate strategy bot (src/src/index.ts): the poll cycle, the       *)
(* per-symbol entry scheduler, openPosition, the close-retry loop,         *)
(* finalizePosition with the drawdown breaker, and shutdown.               *)
(*                                                                         *)
(* Execution model: one JavaScript event loop.  Every action below is one  *)
(* run-to-completion turn: a timer callback, a signal handler, or the      *)
(* continuation of an async function after an await.  Synchronous call     *)
(* chains (scheduleTrade -> openPosition up to its first await, finalize   *)
(* -> shutdown -> closePosition up to its first await, ...) are computed   *)
(* by operators that take and return the record of mutable program state.  *)
(*                                                                         *)
(* Units: time in ms, funding rate in 1e-4, money in cents.                *)
(* Optional values (undefined / null) are sequences of length <= 1.        *)
(* JavaScript Maps are functions whose DOMAIN is the key set.              *)
(***************************************************************************)
EXTENDS Integers, Sequences, FiniteSets, TLC

\* ---------------------------------------------------------------- constants
PRE_FUNDING_MS == 5000
POST_FUNDING_MS == 5000
\* 0.005 in units of 1e-4
FUNDING_THRESHOLD == 50
\* 500 USD
TRADE_NOTIONAL_USD == 500
MAX_CLOSE_ATTEMPTS == 5
\* 3 percent
MAX_DRAWDOWN_PCT == 3
\* minimum close delay, Math.max(..., 500)
MIN_CLOSE_DELAY_MS == 500
\* pollTickers keeps sorted.slice(0, 10)
TOP_N == 10
\* fetchTopFundingTickers(50)
FETCH_LIMIT == 50

\* ------------------------------------------------------------------- bounds
\* clock granularity: half a pre-funding window
Tick == PRE_FUNDING_MS \div 2
\* the clock stops after MaxTicks ticks
MaxTicks == 4
\* gateway calls that fail over a run
MaxFaults == 1
\* poll cycles started by the poll interval (the one main() starts is extra)
MaxPolls == 1
\* termination signals delivered
MaxSignals == 1
\* OpenPosition records created over a run
MaxPositions == 2

Symbols == {"AAA", "BBB"}
Signals == {"SIGINT", "SIGTERM"}
ShutdownIds == {"breach"} \cup Signals
Origins == {"timer"} \cup ShutdownIds

\* ------------------------------------------------------------ small helpers
None == <<>>
Some(v) == <<v>>
IsSome(o) == Len(o) > 0
Val(o) == o[1]
\* a ?? b on optional values
Coalesce(a, b) == IF IsSome(a) THEN a ELSE b
Abs(x) == IF x < 0 THEN 0 - x ELSE x
Max(a, b) == IF a >= b THEN a ELSE b

MapPut(m, k, v) == [x \in (DOMAIN m) \cup {k} |-> IF x = k THEN v ELSE m[x]]
MapDel(m, k) == [x \in (DOMAIN m) \ {k} |-> m[x]]
MapGet(m, k) == IF k \in DOMAIN m THEN Some(m[k]) ELSE None
EmptyMap == [x \in {} |-> 0]

\* ----------------------------------------------------------------- tickers
\* nextFundingTime as received: absent, an unparseable string, a 10-digit
\* string of seconds, or a string of milliseconds.
NoTime == [kind |-> "none", v |-> 0]
BadTime == [kind |-> "bad", v |-> 0]
SecTime(v) == [kind |-> "sec", v |-> v]
MsTime(v) == [kind |-> "ms", v |-> v]

\* parseFundingTimestamp: null for an absent or unparseable value, seconds
\* (10 characters) scaled to ms.
parseFundingTimestamp(raw) ==
    CASE raw.kind = "none" -> None
      [] raw.kind = "bad" -> None
      [] raw.kind = "sec" -> Some(raw.v * 1000)
      [] OTHER -> Some(raw.v)

\* a snapshot as transformTicker builds it
Ticker(sym, rate, mark, last, bid, ask, nft) ==
    [symbol |-> sym, fundingRate |-> rate, fundingRateAbs |-> Abs(rate),
     markPrice |-> mark, lastPrice |-> last, bidPrice |-> bid, askPrice |-> ask,
     nextFundingTime |-> nft]

\* JavaScript truthiness of an optional number: !x is true for undefined and 0
Truthy(o) == IsSome(o) /\ Val(o) # 0

\* openPosition's reference price: mark ?? last ?? bid ?? ask
OpenReferencePrice(t) ==
    Coalesce(t.markPrice, Coalesce(t.lastPrice, Coalesce(t.bidPrice, t.askPrice)))

\* closePosition's reference price: the snapshot's ask (buy-to-close) or bid
\* (sell-to-close), then mark, then last; the entry price only when the
\* symbol has no snapshot at all.
CloseReferencePrice(tickerOpt, closeSide, entryPrice) ==
    IF IsSome(tickerOpt)
    THEN IF closeSide = "Buy"
         THEN Coalesce(Val(tickerOpt).askPrice,
                       Coalesce(Val(tickerOpt).markPrice, Val(tickerOpt).lastPrice))
         ELSE Coalesce(Val(tickerOpt).bidPrice,
                       Coalesce(Val(tickerOpt).markPrice, Val(tickerOpt).lastPrice))
    ELSE Some(entryPrice)

\* if (!referencePrice || referencePrice <= 0)
PriceUsable(p) == Truthy(p) /\ Val(p) > 0

\* ------------------------------------------------------- gateway inputs
\* a price at which the notional buys 5 units
Px == TRADE_NOTIONAL_USD \div 5
\* shapes of snapshot the gateway returns for a symbol:
\* qualifies exactly at the threshold, event in 3 ticks, all prices
ShArm ==
    [rate |-> FUNDING_THRESHOLD, nft |-> MsTime(3 * Tick),
     mark |-> Some(Px), last |-> Some(Px), bid |-> Some(Px), ask |-> Some(Px)]
\* qualifies, event in 1 tick (the fire time is reached at time 0), bid only:
\* a short entry prices off the bid, its buy-to-close finds no ask, mark or
\* last
ShNow ==
    [rate |-> FUNDING_THRESHOLD, nft |-> MsTime(Tick),
     mark |-> None, last |-> None, bid |-> Some(Px), ask |-> None]
\* just below the threshold, event in 4 ticks given in seconds
ShLow ==
    [rate |-> FUNDING_THRESHOLD - 1, nft |-> SecTime((4 * Tick) \div 1000),
     mark |-> Some(Px), last |-> Some(Px), bid |-> Some(Px), ask |-> Some(Px)]
\* negative rate, event in 5 ticks: too far to arm at time 0
ShFar ==
    [rate |-> 0 - FUNDING_THRESHOLD, nft |-> MsTime(5 * Tick),
     mark |-> Some(Px), last |-> Some(Px), bid |-> Some(Px), ask |-> Some(Px)]
Shapes == {ShArm, ShNow, ShLow, ShFar}

\* AAA takes every shape, BBB the two qualifying ones with a near event
ShapesOf(sym) == IF sym = "AAA" THEN Shapes ELSE {ShArm, ShNow}

Snap(sym, sh) == Ticker(sym, sh.rate, sh.mark, sh.last, sh.bid, sh.ask, sh.nft)
SnapsOf(sym) == {Snap(sym, sh) : sh \in ShapesOf(sym)}
AllSnaps == UNION {SnapsOf(sym) : sym \in Symbols}

\* responses of the ticker list endpoint: sequences of snapshots of distinct
\* symbols (fetchTopFundingTickers sorts them, the venue's order is immaterial)
Responses ==
    {<<>>} \cup {<<t>> : t \in AllSnaps}
    \cup {<<t, u>> : t \in SnapsOf("AAA"), u \in SnapsOf("BBB")}

\* open quantities the position endpoint reports
Sizes == {0, 1, 3}
\* equity at startup and equity read after a trade, in cents
StartEquity == 1000 * 100
Equities == {96500, 97000, 97001}

\* ---------------------------------------------------------------- variables
VARIABLES
    now,              \* Date.now()
    mainPc,           \* "init" while main() awaits the startup balance, then "running"
    exited,           \* process.exit was called
    pollHandle,       \* the poll interval is installed
    monitorHandle,    \* the monitor interval is installed
    startingEquity,   \* optional number
    drawdownLimitUsd, \* startingEquity * MAX_DRAWDOWN_PCT, in 1/100 cent
    tradingEnabled,
    latestTickers,    \* Map symbol -> snapshot
    schedules,        \* Map symbol -> [fundingTime, openTimer]
    entryTimers,      \* pending setTimeout handles of entry timers
    activePositions,  \* Map symbol -> ActivePosition
    closeTimers,      \* pending setTimeout handles of close timers
    openingSymbols,   \* Set of symbols
    opens,            \* openPosition invocations suspended on an await
    runs,             \* closePosition/finalizePosition invocations suspended on an await
    shutdowns,        \* shutdown invocations awaiting a closePosition: id -> cursor
    polls,            \* pollTickers invocations awaiting the fetch
    pollCount,        \* poll cycles started by the interval
    signalled,        \* signals delivered so far
    posSeq,           \* OpenPosition records created so far
    faults,           \* gateway calls that failed so far
    shutdownCalls,    \* observer: shutdown() invocations per trigger
    breachSeen,       \* observer: symbols whose finalize read a breaching equity
    replaced,         \* observer: per armed symbol, the event time of the timer
                      \* that scheduleTrade cancelled when it armed the current one
    closeLog,         \* observer: per position id, the close attempts made for it
    guardReturns,     \* observer: symbols for which an openPosition call returned
                      \* at its guard on the marker or on the position record
    dailyPnl,         \* dist variant: running total of net PnL, in cents
    netLog,           \* observer (dist variant): per position id, how many times
                      \* a net PnL was added; once, the sum of the first ones
    fnIn,             \* the arguments of a function applied on its own
    fnOut             \* its result, once applied

vars == <<now, mainPc, exited, pollHandle, monitorHandle, startingEquity,
          drawdownLimitUsd, tradingEnabled, latestTickers, schedules, entryTimers,
          activePositions, closeTimers, openingSymbols, opens, runs, shutdowns,
          polls, pollCount, signalled, posSeq, faults, shutdownCalls, breachSeen,
          replaced, closeLog, guardReturns, dailyPnl, netLog, fnIn, fnOut>>

\* the program state as one record: a synchronous call chain is an operator
\* from such a record to such a record
Cur ==
    [now |-> now, mainPc |-> mainPc, exited |-> exited, pollHandle |-> pollHandle,
     monitorHandle |-> monitorHandle, startingEquity |-> startingEquity,
     drawdownLimitUsd |-> drawdownLimitUsd,
     tradingEnabled |-> tradingEnabled, latestTickers |-> latestTickers,
     schedules |-> schedules, entryTimers |-> entryTimers,
     activePositions |-> activePositions, closeTimers |-> closeTimers,
     openingSymbols |-> openingSymbols, opens |-> opens, runs |-> runs,
     shutdowns |-> shutdowns, polls |-> polls, pollCount |-> pollCount,
     signalled |-> signalled, posSeq |-> posSeq, faults |-> faults,
     shutdownCalls |-> shutdownCalls, breachSeen |-> breachSeen,
     replaced |-> replaced, closeLog |-> closeLog,
     guardReturns |-> guardReturns, dailyPnl |-> dailyPnl, netLog |-> netLog,
     fnIn |-> fnIn, fnOut |-> fnOut]

\* the observer's log keeps an entry per position that is in the table
LogFor(st) ==
    [id \in {st.activePositions[sym].id : sym \in DOMAIN st.activePositions}
       |-> IF id \in DOMAIN st.closeLog THEN st.closeLog[id]
           ELSE [queries |-> 0, orders |-> 0, by |-> {},
                 summaries |-> 0, checks |-> 0]]

\* the observer remembers a replaced timer while the replacing one is armed
ReplacedFor(st) ==
    [sym \in (DOMAIN st.replaced) \cap (DOMAIN st.schedules) |-> st.replaced[sym]]

\* the variables take the values of a state record
Is(st) ==
    /\ now = st.now
    /\ mainPc = st.mainPc
    /\ exited = st.exited
    /\ pollHandle = st.pollHandle
    /\ monitorHandle = st.monitorHandle
    /\ startingEquity = st.startingEquity
    /\ drawdownLimitUsd = st.drawdownLimitUsd
    /\ tradingEnabled = st.tradingEnabled
    /\ latestTickers = st.latestTickers
    /\ schedules = st.schedules
    /\ entryTimers = st.entryTimers
    /\ activePositions = st.activePositions
    /\ closeTimers = st.closeTimers
    /\ openingSymbols = st.openingSymbols
    /\ opens = st.opens
    /\ runs = st.runs
    /\ shutdowns = st.shutdowns
    /\ polls = st.polls
    /\ pollCount = st.pollCount
    /\ signalled = st.signalled
    /\ posSeq = st.posSeq
    /\ faults = st.faults
    /\ shutdownCalls = st.shutdownCalls
    /\ breachSeen = st.breachSeen
    /\ replaced = ReplacedFor(st)
    /\ closeLog = LogFor(st)
    /\ guardReturns = st.guardReturns
    /\ dailyPnl = st.dailyPnl
    /\ netLog = st.netLog
    /\ fnIn = st.fnIn
    /\ fnOut = st.fnOut

\* the next state is a state record
Commit(st) ==
    /\ now' = st.now
    /\ mainPc' = st.mainPc
    /\ exited' = st.exited
    /\ pollHandle' = st.pollHandle
    /\ monitorHandle' = st.monitorHandle
    /\ startingEquity' = st.startingEquity
    /\ drawdownLimitUsd' = st.drawdownLimitUsd
    /\ tradingEnabled' = st.tradingEnabled
    /\ latestTickers' = st.latestTickers
    /\ schedules' = st.schedules
    /\ entryTimers' = st.entryTimers
    /\ activePositions' = st.activePositions
    /\ closeTimers' = st.closeTimers
    /\ openingSymbols' = st.openingSymbols
    /\ opens' = st.opens
    /\ runs' = st.runs
    /\ shutdowns' = st.shutdowns
    /\ polls' = st.polls
    /\ pollCount' = st.pollCount
    /\ signalled' = st.signalled
    /\ posSeq' = st.posSeq
    /\ faults' = st.faults
    /\ shutdownCalls' = st.shutdownCalls
    /\ breachSeen' = st.breachSeen
    /\ replaced' = ReplacedFor(st)
    /\ closeLog' = LogFor(st)
    /\ guardReturns' = st.guardReturns
    /\ dailyPnl' = st.dailyPnl
    /\ netLog' = st.netLog
    /\ fnIn' = st.fnIn
    /\ fnOut' = st.fnOut

\* the state when the module has been loaded and main() awaits the balance
Loaded ==
    [now |-> 0, mainPc |-> "init", exited |-> FALSE, pollHandle |-> FALSE,
     monitorHandle |-> FALSE, startingEquity |-> None, drawdownLimitUsd |-> 0,
     tradingEnabled |-> TRUE, latestTickers |-> EmptyMap, schedules |-> EmptyMap,
     entryTimers |-> {}, activePositions |-> EmptyMap, closeTimers |-> {},
     openingSymbols |-> {}, opens |-> {}, runs |-> {}, shutdowns |-> EmptyMap,
     polls |-> {}, pollCount |-> 0, signalled |-> {}, posSeq |-> 0, faults |-> 0,
     shutdownCalls |-> [id \in ShutdownIds |-> 0], breachSeen |-> {},
     replaced |-> EmptyMap, closeLog |-> EmptyMap,
     guardReturns |-> {}, dailyPnl |-> 0, netLog |-> [adds |-> EmptyMap, once |-> 0],
     fnIn |-> None, fnOut |-> None]

Init == Is(Loaded)

\* ------------------------------------------------- scheduler (synchronous)
\* variant: the entry is deleted, its timer is left pending
clearScheduleKeepTimer(st, sym) ==
    IF sym \in DOMAIN st.schedules
    THEN [st EXCEPT !.schedules = MapDel(@, sym)]
    ELSE st

\* clearSchedule(symbol)
clearSchedule(st, sym) ==
    IF sym \in DOMAIN st.schedules
    THEN [st EXCEPT !.entryTimers = @ \ {st.schedules[sym].openTimer},
                    !.schedules = MapDel(@, sym)]
    ELSE st

\* variant: every position record goes with the one of the symbol
clearActivePositionEvery(st, sym) ==
    IF sym \in DOMAIN st.activePositions
    THEN [st EXCEPT !.closeTimers = {}, !.activePositions = EmptyMap]
    ELSE st

\* variant: the close timer is cancelled, the record stays
clearActivePositionKeepRecord(st, sym) ==
    IF sym \in DOMAIN st.activePositions
    THEN [st EXCEPT !.closeTimers = @ \ {st.activePositions[sym].closeTimer}]
    ELSE st

\* clearActivePosition(symbol)
clearActivePosition(st, sym) ==
    IF sym \in DOMAIN st.activePositions
    THEN [st EXCEPT !.closeTimers = @ \ {st.activePositions[sym].closeTimer},
                    !.activePositions = MapDel(@, sym)]
    ELSE st

\* variant: the guard does not look at the marker
OpenGuardNoMarker(st, sym) ==
    /\ st.tradingEnabled
    /\ sym \notin DOMAIN st.activePositions

\* openPosition's guard: trading enabled, no entry in progress, no position
OpenGuard(st, sym) ==
    /\ st.tradingEnabled
    /\ sym \notin st.openingSymbols
    /\ sym \notin DOMAIN st.activePositions

\* openPosition(symbol, fundingTime) up to its first await: the guards, the
\* marker, the cached snapshot, and the refresh request in flight.
OpenStart(st, sym, fundingTime) ==
    IF OpenGuard(st, sym)
    THEN [st EXCEPT !.openingSymbols = @ \cup {sym},
                    !.opens = @ \cup {[sym |-> sym, pc |-> "refresh",
                                       fundingTime |-> fundingTime,
                                       ticker |-> MapGet(st.latestTickers, sym),
                                       side |-> "none", price |-> 0, qty |-> 0]}]
    ELSE IF st.tradingEnabled
    THEN [st EXCEPT !.guardReturns = @ \cup {sym}]
    ELSE st

\* variant: every wait above zero arms a timer
ArmDecisionNoWindow(timeUntilOpen) ==
    IF timeUntilOpen <= 0 THEN "immediate" ELSE "arm"

\* the branch scheduleTrade takes for a wait of timeUntilOpen ms
ArmDecision(timeUntilOpen) ==
    IF timeUntilOpen > PRE_FUNDING_MS THEN "decline"
    ELSE IF timeUntilOpen <= 0 THEN "immediate"
    ELSE "arm"

\* variant: a rate one step below the threshold passes
QualifiesBelow(rate) == Abs(rate) >= FUNDING_THRESHOLD - 1

\* Math.abs(ticker.fundingRate ?? 0) < FUNDING_THRESHOLD is false
Qualifies(rate) == Abs(rate) >= FUNDING_THRESHOLD

\* scheduleTrade(ticker)
scheduleTrade(st, ticker) ==
    LET ft == parseFundingTimestamp(ticker.nextFundingTime)
        sym == ticker.symbol
    IN  IF ~Truthy(ft) THEN st
        ELSE IF Val(ft) <= st.now THEN st
        ELSE IF ~Qualifies(ticker.fundingRate) THEN st
        ELSE IF sym \in DOMAIN st.schedules /\ st.schedules[sym].fundingTime = Val(ft)
        THEN st
        ELSE
          LET fundingTime == Val(ft)
              timeUntilOpen == (fundingTime - PRE_FUNDING_MS) - st.now
              cleared == IF sym \in DOMAIN st.schedules THEN clearSchedule(st, sym) ELSE st
              openTimer == [sym |-> sym, fundingTime |-> fundingTime,
                            at |-> st.now + timeUntilOpen]
          IN  CASE ArmDecision(timeUntilOpen) = "decline" -> cleared
                [] ArmDecision(timeUntilOpen) = "immediate" ->
                     OpenStart(cleared, sym, fundingTime)
                [] OTHER ->
                     [cleared EXCEPT
                        !.entryTimers = @ \cup {openTimer},
                        !.schedules = MapPut(@, sym, [fundingTime |-> fundingTime,
                                                      openTimer |-> openTimer]),
                        !.replaced = IF sym \in DOMAIN st.schedules
                                     THEN MapPut(@, sym, st.schedules[sym].fundingTime)
                                     ELSE MapDel(@, sym)]

\* ------------------------------------------------------------ poll (sync)
\* Array.prototype.sort (stable); before[i][j] says that the comparator puts
\* seq[i] before seq[j]
SortedBy(seq, before) ==
    LET n == Len(seq)
        rank(i) == 1 + Cardinality({j \in 1..n :
                          \/ before[j][i]
                          \/ (~before[i][j] /\ j < i)})
    IN  [k \in 1..n |-> seq[CHOOSE i \in 1..n : rank(i) = k]]

Head_(seq, n) == IF Len(seq) <= n THEN seq ELSE SubSeq(seq, 1, n)

\* fetchTopFundingTickers(limit): descending absolute rate, first `limit`
FetchTopBefore(a, b) == b.fundingRateAbs - a.fundingRateAbs < 0
fetchTopFundingTickers(resp, limit) ==
    Head_(SortedBy(resp, [i \in 1..Len(resp) |-> [j \in 1..Len(resp) |->
                             FetchTopBefore(resp[i], resp[j])]]), limit)

\* variant: the comparator looks at the rate only
SelectionBeforeRateOnly(a, b) == b.fundingRateAbs - a.fundingRateAbs < 0

\* the comparator of pollTickers: descending absolute rate, then ascending
\* parsed event time (unparseable = Infinity; Infinity - Infinity is NaN,
\* which sort treats as equal)
SelectionBefore(a, b) ==
    LET rateDiff == b.fundingRateAbs - a.fundingRateAbs
        aTime == parseFundingTimestamp(a.nextFundingTime)
        bTime == parseFundingTimestamp(b.nextFundingTime)
    IN  IF rateDiff # 0 THEN rateDiff < 0
        ELSE IF IsSome(aTime) /\ IsSome(bTime) THEN Val(aTime) - Val(bTime) < 0
        ELSE IsSome(aTime) /\ ~IsSome(bTime)

\* tickers.filter(t => t.nextFundingTime).sort(...).slice(0, 10)
Selection(tickers) ==
    LET kept == SelectSeq(tickers, LAMBDA t : t.nextFundingTime.kind # "none")
    IN  Head_(SortedBy(kept, [i \in 1..Len(kept) |-> [j \in 1..Len(kept) |->
                                 SelectionBefore(kept[i], kept[j])]]), TOP_N)

RECURSIVE StoreAll(_, _)
\* tickers.forEach(t => latestTickers.set(t.symbol, t))
StoreAll(m, tickers) ==
    IF tickers = <<>> THEN m
    ELSE StoreAll(MapPut(m, Head(tickers).symbol, Head(tickers)), Tail(tickers))

RECURSIVE ScheduleAll(_, _)
\* sorted.forEach(t => scheduleTrade(t))
ScheduleAll(st, sorted) ==
    IF sorted = <<>> THEN st
    ELSE ScheduleAll(scheduleTrade(st, Head(sorted)), Tail(sorted))

RECURSIVE ClearAll(_, _)
\* clearSchedule for every symbol of a set
ClearAll(st, syms) ==
    IF syms = {} THEN st
    ELSE LET sym == CHOOSE x \in syms : TRUE
         IN  ClearAll(clearSchedule(st, sym), syms \ {sym})

\* variant: the symbols that left the selection stay armed
PollBodyKeepDropped(st, tickers) ==
    LET stored == [st EXCEPT !.latestTickers = StoreAll(@, tickers)]
        sorted == Selection(tickers)
    IN  ScheduleAll(stored, sorted)

\* the body of pollTickers after the fetch returned
PollBody(st, tickers) ==
    LET stored == [st EXCEPT !.latestTickers = StoreAll(@, tickers)]
        sorted == Selection(tickers)
        activeSymbols == {sorted[i].symbol : i \in 1..Len(sorted)}
        scheduled == ScheduleAll(stored, sorted)
    IN  ClearAll(scheduled, (DOMAIN scheduled.schedules) \ activeSymbols)

\* --------------------------------------- close, finalize, shutdown (sync)
FinPcs == {"sumEntry", "sumClose", "funding", "balance", "awaitShutdown"}

\* observer: one more open-quantity query for position id pos
LogQuery(st, pos) ==
    IF pos \in DOMAIN st.closeLog
    THEN [st EXCEPT !.closeLog[pos].queries = @ + 1]
    ELSE st

\* observer: one more close order for position id pos, submitted by a run
\* that trigger `by` started
LogOrder(st, pos, by) ==
    IF pos \in DOMAIN st.closeLog
    THEN [st EXCEPT !.closeLog[pos].orders = @ + 1,
                    !.closeLog[pos].by = @ \cup {by}]
    ELSE st

\* no placeLimitOrder request of the invocation is in flight
NoOrder == [side |-> "none", qty |-> 0, reduceOnly |-> FALSE]

\* variant: the close order has the side of the position
CloseSideSame(side) == side

\* closeSide = position.side === "Buy" ? "Sell" : "Buy"
CloseSide(side) == IF side = "Buy" THEN "Sell" ELSE "Buy"

\* closePosition(symbol) up to its first await: the lookup and the first
\* getPositionSize request.  Observer fields of a run: allPos, every attempt
\* so far read a quantity > 0; streak, the orders submitted while allPos.
StartClose(st, sym, by) ==
    IF sym \notin DOMAIN st.activePositions THEN st
    ELSE LET position == st.activePositions[sym]
             run == [sym |-> sym, by |-> by, pos |-> position.id,
                     side |-> position.side,
                     closeSide |-> CloseSide(position.side),
                     read |-> 0, order |-> NoOrder,
                     entryPrice |-> position.entryPrice,
                     pc |-> "size", attempt |-> 1, fin |-> 0,
                     allPos |-> TRUE, streak |-> 0]
         IN  LogQuery([st EXCEPT !.runs = @ \cup {run}], position.id)

\* for (const symbol of activePositions.keys()): a Map iterates in insertion
\* order and sees entries added during the iteration; position ids grow with
\* insertion, the cursor is the id visited last.
NextKeys(st, id) ==
    {sym \in DOMAIN st.activePositions :
        st.activePositions[sym].id > st.shutdowns[id].cursor}

RECURSIVE RunReturn(_, _), FinishRun(_, _), ShutdownIterate(_, _), ShutdownReturn(_, _)

\* closePosition returns to whoever awaits it: nobody for a timer callback,
\* the loop of a shutdown invocation otherwise
RunReturn(st, run) ==
    LET st1 == [st EXCEPT !.runs = @ \ {run}]
    IN  IF run.by \in ShutdownIds /\ run.by \in DOMAIN st1.shutdowns
        THEN ShutdownIterate(st1, run.by)
        ELSE st1

\* the finally block of finalizePosition, then the return
FinishRun(st, run) == RunReturn(clearActivePosition(st, run.sym), run)

\* the next iteration of shutdown's loop over activePositions.keys()
ShutdownIterate(st, id) ==
    IF NextKeys(st, id) = {} THEN ShutdownReturn(st, id)
    ELSE LET sym == CHOOSE x \in NextKeys(st, id) :
                       \A y \in NextKeys(st, id) :
                          st.activePositions[x].id <= st.activePositions[y].id
         IN  StartClose([st EXCEPT !.shutdowns[id].cursor = st.activePositions[sym].id],
                        sym, id)

\* shutdown() returns: a signal handler then calls process.exit(0); the
\* breach path resumes the finalizePosition that awaited it
ShutdownReturn(st, id) ==
    LET st1 == [st EXCEPT !.shutdowns = MapDel(@, id)]
        waiters == {r \in st1.runs : r.pc = "awaitShutdown"}
    IN  IF id \in Signals THEN [st1 EXCEPT !.exited = TRUE]
        ELSE IF waiters = {} THEN st1
        ELSE FinishRun(st1, CHOOSE r \in waiters : TRUE)

\* variant: shutdown() leaves the armed entries alone
ShutdownStartKeepSchedules(st, id) ==
    LET st1 == [st EXCEPT !.pollHandle = FALSE, !.monitorHandle = FALSE]
        st3 == [st1 EXCEPT !.shutdowns = MapPut(@, id, [cursor |-> 0, cancelled |-> 0, errors |-> 0]),
                           !.shutdownCalls[id] = @ + 1]
    IN  ShutdownIterate(st3, id)

\* shutdown() up to its first await
ShutdownStart(st, id) ==
    LET st1 == [st EXCEPT !.pollHandle = FALSE, !.monitorHandle = FALSE]
        st2 == ClearAll(st1, DOMAIN st1.schedules)
        st3 == [st2 EXCEPT !.shutdowns = MapPut(@, id, [cursor |-> 0,
                                   cancelled |-> Cardinality(DOMAIN st1.schedules),
                                   errors |-> 0]),
                           !.shutdownCalls[id] = @ + 1]
    IN  ShutdownIterate(st3, id)

\* finalizePosition(symbol) up to its first await
FinalizeStart(st, run) ==
    IF run.sym \notin DOMAIN st.activePositions THEN RunReturn(st, run)
    ELSE [st EXCEPT !.runs = (@ \ {run}) \cup
             {[run EXCEPT !.pc = "sumEntry",
                          !.fin = st.activePositions[run.sym].id]}]

\* variant: a drawdown equal to the limit is not a breach
BreachedStrict(drawdown, limit) == drawdown * 100 > limit

\* drawdown >= drawdownLimitUsd, drawdown in cents, limit in 1/100 cent
Breached(drawdown, limit) == drawdown * 100 >= limit

\* variant: the flag is recomputed by every breach check
FlagRecomputed(enabled, breached) == ~breached

\* tradingEnabled after the breach check of finalizePosition
FlagAfterCheck(enabled, breached) == IF breached /\ enabled THEN FALSE ELSE enabled


\* ------------------------------------------------------------------ actions
ReplaceRun(st, run, run2) == [st EXCEPT !.runs = (@ \ {run}) \cup {run2}]
Fault(st) == [st EXCEPT !.faults = @ + 1]
\* a gateway call of a closePosition invocation threw; observer: the error
\* is counted for the shutdown invocation that awaits it
FaultIn(st, by) ==
    IF by \in DOMAIN st.shutdowns
    THEN Fault([st EXCEPT !.shutdowns[by].errors = @ + 1])
    ELSE Fault(st)
CanFail == faults < MaxFaults

\* variant: the limit keeps its initial value
mainLimitUnset(st, totalEquity) ==
    [st EXCEPT !.mainPc = "running",
               !.startingEquity = Some(totalEquity),
               !.pollHandle = TRUE,
               !.monitorHandle = TRUE,
               !.polls = IF st.tradingEnabled THEN @ \cup {0} ELSE @]

\* main() after the startup balance read: the equity snapshot, the limit,
\* both intervals, and the first pollTickers() up to its await
main(st, totalEquity) ==
    [st EXCEPT !.mainPc = "running",
               !.startingEquity = Some(totalEquity),
               !.drawdownLimitUsd = totalEquity * MAX_DRAWDOWN_PCT,
               !.pollHandle = TRUE,
               !.monitorHandle = TRUE,
               !.polls = IF st.tradingEnabled THEN @ \cup {0} ELSE @]

StartupOk ==
    /\ mainPc = "init" /\ ~exited
    /\ Commit(main(Cur, StartEquity))

\* main(): the startup balance read failed; main rethrows, process.exit(1)
StartupFail ==
    /\ mainPc = "init" /\ ~exited /\ CanFail
    /\ Commit(Fault([Cur EXCEPT !.exited = TRUE]))

\* the poll interval fires: pollTickers() up to its await
PollStart ==
    /\ ~exited /\ pollHandle /\ tradingEnabled
    /\ pollCount < MaxPolls
    /\ Commit([Cur EXCEPT !.pollCount = @ + 1, !.polls = @ \cup {pollCount + 1}])

\* the fetch of poll cycle p returned resp
PollOk(p, resp) ==
    /\ ~exited /\ p \in polls
    /\ Commit(PollBody([Cur EXCEPT !.polls = @ \ {p}],
                       fetchTopFundingTickers(resp, FETCH_LIMIT)))

\* variant: a failed fetch unschedules every armed symbol
PollFailUnschedules(p) ==
    /\ ~exited /\ p \in polls /\ CanFail
    /\ Commit(Fault(ClearAll([Cur EXCEPT !.polls = @ \ {p}], DOMAIN schedules)))

\* the fetch of poll cycle p failed: logged, cycle skipped
PollFail(p) ==
    /\ ~exited /\ p \in polls /\ CanFail
    /\ Commit(Fault([Cur EXCEPT !.polls = @ \ {p}]))

TimerDue == \E h \in entryTimers \cup closeTimers : h.at <= now

\* time passes; a due timer runs before the clock moves on
Tick_ ==
    /\ ~exited /\ mainPc = "running"
    /\ now < MaxTicks * Tick
    /\ ~TimerDue
    /\ Commit([Cur EXCEPT !.now = @ + Tick])

\* the entry timer callback: schedules.delete(symbol); void openPosition(...)
EntryFired(st, h) ==
    OpenStart([st EXCEPT !.entryTimers = @ \ {h}, !.schedules = MapDel(@, h.sym)],
              h.sym, h.fundingTime)

EntryTimerFire(h) ==
    /\ ~exited /\ h \in entryTimers /\ h.at <= now
    /\ Commit(EntryFired(Cur, h))

\* side = fundingRate >= 0 ? "Sell" : "Buy"
EntrySide(fundingRate) == IF fundingRate >= 0 THEN "Sell" ELSE "Buy"

\* what openPosition does once the snapshot refresh has settled: refreshed is
\* the snapshot returned, or None when the refresh returned null or threw
OpenAfterRefresh(st, task, refreshed) ==
    LET ticker == Coalesce(refreshed, task.ticker)
        st1 == IF IsSome(refreshed)
               THEN [st EXCEPT !.latestTickers = MapPut(@, task.sym, Val(refreshed))]
               ELSE st
        \* every return path runs the finally block
        skipped == [st1 EXCEPT !.opens = @ \ {task},
                               !.openingSymbols = @ \ {task.sym}]
    IN  IF ~IsSome(ticker) THEN skipped
        ELSE IF ~Qualifies(Val(ticker).fundingRate) THEN skipped
        ELSE IF ~PriceUsable(OpenReferencePrice(Val(ticker))) THEN skipped
        ELSE [st1 EXCEPT !.opens = (@ \ {task}) \cup
                {[task EXCEPT
                    !.pc = "order",
                    !.ticker = ticker,
                    !.side = EntrySide(Val(ticker).fundingRate),
                    !.price = Val(OpenReferencePrice(Val(ticker))),
                    !.qty = TRADE_NOTIONAL_USD \div Val(OpenReferencePrice(Val(ticker)))]}]

OpenRefreshed(task, t) ==
    /\ ~exited /\ task \in opens /\ task.pc = "refresh"
    /\ Commit(OpenAfterRefresh(Cur, task, Some(t)))

OpenRefreshFail(task) ==
    /\ ~exited /\ task \in opens /\ task.pc = "refresh" /\ CanFail
    /\ Commit(Fault(OpenAfterRefresh(Cur, task, None)))

\* variant: the close delay has no floor
NewPositionNoFloor(st, task, id) ==
    LET closeDelay == task.fundingTime + POST_FUNDING_MS - st.now
    IN  [id |-> id, symbol |-> task.sym, side |-> task.side, qty |-> task.qty,
         entryPrice |-> task.price, fundingTime |-> task.fundingTime,
         openedAt |-> st.now,
         entryOrderLinkId |-> [pos |-> id, by |-> "entry", n |-> 0],
         closeOrderLinkIds |-> {},
         closeTimer |-> [sym |-> task.sym, pos |-> id, at |-> st.now + closeDelay]]

\* the ActivePosition record openPosition stores after a confirmed entry
NewPosition(st, task, id) ==
    LET closeDelay == Max(task.fundingTime + POST_FUNDING_MS - st.now, MIN_CLOSE_DELAY_MS)
    IN  [id |-> id, symbol |-> task.sym, side |-> task.side, qty |-> task.qty,
         entryPrice |-> task.price, fundingTime |-> task.fundingTime,
         openedAt |-> st.now,
         entryOrderLinkId |-> [pos |-> id, by |-> "entry", n |-> 0],
         closeOrderLinkIds |-> {},
         closeTimer |-> [sym |-> task.sym, pos |-> id, at |-> st.now + closeDelay]]

\* variant: the record is stored without a close timer
OpenConfirmedNoTimer(st, task) ==
    LET position == NewPosition(st, task, st.posSeq + 1)
    IN  [st EXCEPT !.posSeq = @ + 1,
                   !.activePositions = MapPut(@, task.sym, position),
                   !.opens = @ \ {task},
                   !.openingSymbols = @ \ {task.sym}]

\* the entry order was confirmed: close timer, position record, marker cleared
OpenConfirmed(st, task) ==
    LET position == NewPosition(st, task, st.posSeq + 1)
    IN  [st EXCEPT !.posSeq = @ + 1,
                   !.closeTimers = @ \cup {position.closeTimer},
                   !.activePositions = MapPut(@, task.sym, position),
                   !.opens = @ \ {task},
                   !.openingSymbols = @ \ {task.sym}]

OpenOrderOk(task) ==
    /\ ~exited /\ task \in opens /\ task.pc = "order"
    /\ posSeq < MaxPositions
    /\ Commit(OpenConfirmed(Cur, task))

\* variant: a failed entry order leaves the marker in place
OpenOrderFailKeepsMarker(task) ==
    /\ ~exited /\ task \in opens /\ task.pc = "order" /\ CanFail
    /\ Commit(Fault([Cur EXCEPT !.opens = @ \ {task}]))

\* the entry order was rejected or the request failed
OpenOrderFail(task) ==
    /\ ~exited /\ task \in opens /\ task.pc = "order" /\ CanFail
    /\ Commit(Fault([Cur EXCEPT !.opens = @ \ {task},
                                !.openingSymbols = @ \ {task.sym}]))

\* the close timer callback: void closePosition(symbol)
CloseTimerFire(h) ==
    /\ ~exited /\ h \in closeTimers /\ h.at <= now
    /\ Commit(StartClose([Cur EXCEPT !.closeTimers = @ \ {h}], h.sym, "timer"))

\* getPositionSize threw: sleep(500), continue
CloseSizeThrow(run) ==
    /\ ~exited /\ run \in runs /\ run.pc = "size" /\ CanFail
    /\ Commit(FaultIn(ReplaceRun(Cur, run,
                  [run EXCEPT !.pc = "sleep", !.allPos = FALSE, !.streak = 0]), run.by))

\* the rest of a loop iteration after getPositionSize returned currentSize:
\* break when flat, break when no reference price, else submit the order
CloseAfterSize(st, run, currentSize) ==
    LET read == IF currentSize > 0 THEN run
                ELSE [run EXCEPT !.allPos = FALSE, !.streak = 0]
        referencePrice == CloseReferencePrice(MapGet(st.latestTickers, run.sym),
                                              run.closeSide, run.entryPrice)
    IN  IF currentSize <= 0 THEN FinalizeStart(ReplaceRun(st, run, read), read)
        ELSE IF ~PriceUsable(referencePrice)
        THEN FinalizeStart(st, run)
        ELSE LogOrder(ReplaceRun(st, run,
                        [run EXCEPT !.pc = "order",
                                    !.read = currentSize,
                                    !.order = [side |-> run.closeSide,
                                               qty |-> currentSize,
                                               reduceOnly |-> TRUE],
                                    !.streak = IF run.allPos THEN @ + 1 ELSE @]),
                      run.pos, run.by)

CloseSizeRead(run, currentSize) ==
    /\ ~exited /\ run \in runs /\ run.pc = "size"
    /\ Commit(CloseAfterSize(Cur, run, currentSize))

\* variant: the new reference replaces the list
PushCloseIdReplace(st, run) ==
    IF run.sym \in DOMAIN st.activePositions /\ st.activePositions[run.sym].id = run.pos
    THEN [st EXCEPT !.activePositions[run.sym].closeOrderLinkIds =
                       {[pos |-> run.pos, by |-> run.by, n |-> run.attempt]}]
    ELSE st

\* position.closeOrderLinkIds.push(id) on the record the run captured, which
\* may have left the table since (the array's order is never used and the
\* ids are unique: a set)
PushCloseId(st, run) ==
    IF run.sym \in DOMAIN st.activePositions /\ st.activePositions[run.sym].id = run.pos
    THEN [st EXCEPT !.activePositions[run.sym].closeOrderLinkIds =
                       @ \cup {[pos |-> run.pos, by |-> run.by, n |-> run.attempt]}]
    ELSE st

\* the close order request returned; then sleep(1000)
CloseOrderOk(run) ==
    /\ ~exited /\ run \in runs /\ run.pc = "order"
    /\ Commit(PushCloseId(ReplaceRun(Cur, run,
                             [run EXCEPT !.pc = "sleep", !.read = 0, !.order = NoOrder]),
                          run))

\* the close order request threw: logged; then sleep(1000)
CloseOrderFail(run) ==
    /\ ~exited /\ run \in runs /\ run.pc = "order" /\ CanFail
    /\ Commit(FaultIn(ReplaceRun(Cur, run,
                  [run EXCEPT !.pc = "sleep", !.read = 0, !.order = NoOrder]), run.by))

\* the for loop's step after a sleep: attempt++, then the next query or the
\* end of the loop and finalizePosition
CloseAfterSleep(st, run) ==
    IF run.attempt + 1 <= MAX_CLOSE_ATTEMPTS
    THEN LogQuery(ReplaceRun(st, run, [run EXCEPT !.pc = "size", !.attempt = @ + 1]),
                  run.pos)
    ELSE FinalizeStart(st, run)

CloseWake(run) ==
    /\ ~exited /\ run \in runs /\ run.pc = "sleep"
    /\ Commit(CloseAfterSleep(Cur, run))

\* finalizePosition: the execution summaries and the funding-fee query settle
\* (each catches its own failures)
NextFinPc(pc) ==
    CASE pc = "sumEntry" -> "sumClose"
      [] pc = "sumClose" -> "funding"
      [] OTHER -> "balance"

FinalizeAdvance(run) ==
    /\ ~exited /\ run \in runs /\ run.pc \in {"sumEntry", "sumClose", "funding"}
    /\ Commit(ReplaceRun(Cur, run, [run EXCEPT !.pc = NextFinPc(run.pc)]))

\* getOrderExecutions or getFundingHistory threw: summarizeExecutions and
\* fetchFundingFee catch it and return zeros, finalizePosition goes on
FinalizeQueryFail(run) ==
    /\ ~exited /\ run \in runs /\ run.pc \in {"sumEntry", "sumClose", "funding"} /\ CanFail
    /\ Commit(FaultIn(ReplaceRun(Cur, run, [run EXCEPT !.pc = NextFinPc(run.pc)]),
                      run.by))

\* variant: a failed balance read counts as a breach
FinalizeBalanceThrowHalts(run) ==
    /\ ~exited /\ run \in runs /\ run.pc = "balance" /\ CanFail
    /\ Commit(IF tradingEnabled
              THEN ShutdownStart(
                      ReplaceRun([FaultIn(Cur, run.by) EXCEPT !.tradingEnabled = FALSE],
                                 run, [run EXCEPT !.pc = "awaitShutdown"]),
                      "breach")
              ELSE FinishRun(FaultIn(Cur, run.by), run))

\* getWalletBalance threw: no breach check, the finally block clears the record
FinalizeBalanceThrow(run) ==
    /\ ~exited /\ run \in runs /\ run.pc = "balance" /\ CanFail
    /\ Commit(FinishRun(FaultIn(Cur, run.by), run))

\* the breach check with the equity read, then the finally block
CheckBreach(st, run, currentEquity) ==
    IF ~IsSome(st.startingEquity) THEN FinishRun(st, run)
    ELSE LET drawdown == Val(st.startingEquity) - currentEquity
             breached == Breached(drawdown, st.drawdownLimitUsd)
             st1 == [st EXCEPT !.tradingEnabled = FlagAfterCheck(@, breached)]
         IN  IF breached /\ st.tradingEnabled
             THEN ShutdownStart(ReplaceRun(st1, run, [run EXCEPT !.pc = "awaitShutdown"]),
                                "breach")
             ELSE FinishRun(st1, run)

\* observer: the equity read is a breach of the limit
SeenBreach(st, run, currentEquity) ==
    IF IsSome(st.startingEquity)
       /\ (Val(st.startingEquity) - currentEquity) * 100
             >= MAX_DRAWDOWN_PCT * Val(st.startingEquity)
    THEN [st EXCEPT !.breachSeen = @ \cup {run.sym}]
    ELSE st

\* observer: finalizePosition printed the PnL summary of position id pos and
\* evaluated the breach test with the equity it read
LogFinalize(st, pos) ==
    IF pos \in DOMAIN st.closeLog
    THEN [st EXCEPT !.closeLog[pos].summaries = @ + 1,
                    !.closeLog[pos].checks = @ + 1]
    ELSE st

FinalizeBalance(run, currentEquity) ==
    /\ ~exited /\ run \in runs /\ run.pc = "balance"
    /\ Commit(CheckBreach(SeenBreach(LogFinalize(Cur, run.fin), run, currentEquity),
                          run, currentEquity))

\* ------------------------------------------ net PnL (dist/.../index.js)
\* amounts in cents.  summarizeExecutions returns { fee, tradePnl } with
\* fee = Math.abs(sum of execFee): a fee is never negative
SummaryPnls == {0 - 4770, 0, 1200}
SummaryFees == {0, 70, 80}
FundingFees == {0 - 80, 0, 80}

\* variant: the funding fee is added
NetPnlFundingAdded(entryPnl, closePnl, entryFee, closeFee, fundingFee) ==
    LET grossPnl == entryPnl + closePnl
        totalFees == entryFee + closeFee
    IN  grossPnl - totalFees + fundingFee

\* finalizePosition: grossPnl, totalFees, netPnl
NetPnl(entryPnl, closePnl, entryFee, closeFee, fundingFee) ==
    LET grossPnl == entryPnl + closePnl
        totalFees == entryFee + closeFee
    IN  grossPnl - totalFees - fundingFee

\* DAILY_STOP_LOSS = -(TRADE_NOTIONAL_USD * 0.1), in cents
DAILY_STOP_LOSS == 0 - ((TRADE_NOTIONAL_USD * 100) \div 10)

\* trade PnL of the close orders a finalizePosition of the dist variant reads
\* (entry PnL 0, fees 0.70 and 0.80, funding fee 0.80): the nets are -50.00,
\* -25.00 and 9.70
DistClosePnls == SummaryPnls \cup {0 - 2270}

\* dailyPnl += netPnl; observer: the addition is logged for the position
DistAddNet(st, pos, netPnl) ==
    LET first == pos \notin DOMAIN st.netLog.adds
    IN  [st EXCEPT !.dailyPnl = @ + netPnl,
                   !.netLog = [adds |-> MapPut(@.adds, pos,
                                          IF first THEN 1 ELSE @.adds[pos] + 1),
                               once |-> IF first THEN @.once + netPnl ELSE @.once]]

\* if (dailyPnl <= DAILY_STOP_LOSS && tradingEnabled) { ... await shutdown() },
\* then the finally block
DistCheckStop(st, run) ==
    IF st.dailyPnl <= DAILY_STOP_LOSS /\ st.tradingEnabled
    THEN ShutdownStart(ReplaceRun([st EXCEPT !.tradingEnabled = FALSE], run,
                                  [run EXCEPT !.pc = "awaitShutdown"]),
                       "breach")
    ELSE FinishRun(st, run)

\* dist variant: the summaries were read
DistFinalizeAdvance(run) ==
    /\ run.pc \in {"sumEntry", "sumClose"}
    /\ FinalizeAdvance(run)

\* dist variant: fetchFundingFee returned; net PnL, running total, stop check
DistFinalizeNet(run, closePnl) ==
    /\ ~exited /\ run \in runs /\ run.pc = "funding"
    /\ Commit(DistCheckStop(DistAddNet(Cur, run.fin, NetPnl(0, closePnl, 70, 80, 80)), run))

\* SIGINT / SIGTERM: await shutdown(); process.exit(0).  The two handlers
\* are the same code: the first signal delivered is taken to be SIGINT.
Signal(sig) ==
    /\ ~exited /\ sig \notin signalled
    /\ Cardinality(signalled) < MaxSignals
    /\ (sig = "SIGTERM") => ("SIGINT" \in signalled)
    /\ Commit(ShutdownStart([Cur EXCEPT !.signalled = @ \cup {sig}], sig))

\* ----------------------------------------------------------- specifications
StartupStep == StartupOk \/ StartupFail
PollStep ==
    \/ PollStart
    \/ \E p \in polls, resp \in Responses : PollOk(p, resp)
    \/ \E p \in polls : PollFail(p)
EntryOkStep ==
    \/ \E task \in opens : \E t \in SnapsOf(task.sym) : OpenRefreshed(task, t)
    \/ \E task \in opens : OpenOrderOk(task)
EntryFailStep ==
    \/ \E task \in opens : OpenRefreshFail(task)
    \/ \E task \in opens : OpenOrderFail(task)
EntryTimerStep == \E h \in entryTimers : EntryTimerFire(h)
CloseOkStep ==
    \/ \E h \in closeTimers : CloseTimerFire(h)
    \/ \E run \in runs, v \in Sizes : CloseSizeRead(run, v)
    \/ \E run \in runs : CloseOrderOk(run)
    \/ \E run \in runs : CloseWake(run)
    \/ \E run \in runs : FinalizeAdvance(run)
    \/ \E run \in runs, e \in Equities : FinalizeBalance(run, e)
CloseFailStep ==
    \/ \E run \in runs : CloseSizeThrow(run)
    \/ \E run \in runs : CloseOrderFail(run)
    \/ \E run \in runs : FinalizeQueryFail(run)
    \/ \E run \in runs : FinalizeBalanceThrow(run)
SignalStep == \E sig \in Signals : Signal(sig)

\* the whole program from module load
Next ==
    \/ StartupStep
    \/ PollStep
    \/ Tick_
    \/ EntryTimerStep
    \/ EntryOkStep
    \/ EntryFailStep
    \/ CloseOkStep
    \/ CloseFailStep
    \/ SignalStep

Spec == Init /\ [][Next]_vars

\* The poller, the scheduler and the entries: no close timer fires and no
\* signal arrives within the horizon.
NextSched ==
    \/ StartupStep
    \/ PollStep
    \/ Tick_
    \/ EntryTimerStep
    \/ EntryOkStep
    \/ EntryFailStep

SpecSched == Init /\ [][NextSched]_vars

\* The poller and the scheduler alone: entries that start stay suspended on
\* their snapshot refresh within the horizon.
NextArm ==
    \/ StartupStep
    \/ PollStep
    \/ Tick_
    \/ EntryTimerStep

SpecArm == Init /\ [][NextArm]_vars

\* The close side.  The initial states are states of the program after a
\* prefix of Spec: main() started, its first poll returned the symbols with
\* ShNow (fire time reached: immediate entries), a refresh returned a
\* qualifying snapshot and the entry order was confirmed.
OpenTaskOf(st, sym) == CHOOSE task \in st.opens : task.sym = sym

AfterFirstPoll(resp) ==
    PollBody([main(Loaded, StartEquity) EXCEPT !.polls = {}],
             fetchTopFundingTickers(resp, FETCH_LIMIT))

AfterEntry(st, sym, sh) ==
    LET refreshed == OpenAfterRefresh(st, OpenTaskOf(st, sym), Some(Snap(sym, sh)))
    IN  OpenConfirmed(refreshed, OpenTaskOf(refreshed, sym))

\* one position, signals, no failing gateway call and no further poll cycle
\* within the horizon
InitClose ==
    \E shA \in {ShNow, ShFar} :
        Is(AfterEntry(AfterFirstPoll(<<Snap("AAA", ShNow)>>), "AAA", shA))

NextClose ==
    \/ Tick_
    \/ CloseOkStep
    \/ SignalStep

SpecClose == InitClose /\ [][NextClose]_vars

\* one position, failing gateway calls, no signal
NextCloseFail ==
    \/ Tick_
    \/ CloseOkStep
    \/ CloseFailStep

SpecCloseFail == InitClose /\ [][NextCloseFail]_vars

\* two symbols: AAA has a position, the entry of BBB is in progress (its
\* refresh is in flight); no signal, no failing gateway call
InitPair ==
    Is(AfterEntry(AfterFirstPoll(<<Snap("AAA", ShNow), Snap("BBB", ShNow)>>),
                  "AAA", ShArm))

NextPair ==
    \/ Tick_
    \/ EntryOkStep
    \/ CloseOkStep

SpecPair == InitPair /\ [][NextPair]_vars

\* the entries: main() started and its first poll returned AAA with its fire
\* time reached (the entry of AAA is in progress), alone or with BBB; the
\* interval polls, the timers and the entries go on, no close timer fires
InitEntry ==
    \E resp \in {<<Snap("AAA", ShNow)>>, <<Snap("AAA", ShNow), Snap("BBB", ShArm)>>} :
        Is(AfterFirstPoll(resp))

NextEntry ==
    \/ PollStep
    \/ Tick_
    \/ EntryTimerStep
    \/ EntryOkStep
    \/ EntryFailStep

SpecEntry == InitEntry /\ [][NextEntry]_vars

\* the halt: AAA and BBB have a position each and the second poll cycle armed
\* an entry for the event of AAA that follows; a signal or a breach starts
\* shutdown(); the clock does not advance within the horizon (no timer
\* fires), no further poll cycle starts and no gateway call fails
AfterSecondPoll(st, resp) == PollBody(st, fetchTopFundingTickers(resp, FETCH_LIMIT))

InitHalt ==
    Is(AfterSecondPoll(
          AfterEntry(AfterEntry(AfterFirstPoll(<<Snap("AAA", ShNow), Snap("BBB", ShNow)>>),
                                "AAA", ShArm),
                     "BBB", ShArm),
          <<Snap("AAA", ShArm)>>))

NextHalt ==
    \/ SignalStep
    \/ \E run \in runs, v \in Sizes : CloseSizeRead(run, v)
    \/ \E run \in runs : CloseOrderOk(run)
    \/ \E run \in runs : CloseWake(run)
    \/ \E run \in runs : FinalizeAdvance(run)
    \/ \E run \in runs, e \in Equities : FinalizeBalance(run, e)

SpecHalt == InitHalt /\ [][NextHalt]_vars

\* the poller over open positions: AAA and BBB have a position each, AAA is
\* armed again; poll cycles, the clock and the entry timers go on (an entry
\* that starts stays suspended on its refresh), no close timer fires
NextDrop ==
    \/ PollStep
    \/ Tick_
    \/ EntryTimerStep

SpecDrop == InitHalt /\ [][NextDrop]_vars

\* the clock reached t while no timer was due and no request returned
Elapsed(st, t) == [st EXCEPT !.now = t]

\* failing gateway calls with two symbols: AAA has a position, the entry of
\* BBB is still in progress two ticks later, when the second poll cycle arms
\* AAA for the event that follows; one more tick and the close timer of AAA
\* and the new entry timer are due.  Entries, closes and finalizes with
\* failing calls and the breach shutdown; the clock does not advance within
\* the horizon, no further poll cycle and no signal
InitIsolate ==
    Is(Elapsed(
          AfterSecondPoll(
             Elapsed(AfterEntry(AfterFirstPoll(<<Snap("AAA", ShNow), Snap("BBB", ShNow)>>),
                                "AAA", ShArm),
                     2 * Tick),
             <<Snap("AAA", ShFar), Snap("BBB", ShArm)>>),
          3 * Tick))

NextIsolate ==
    \/ EntryTimerStep
    \/ EntryOkStep
    \/ EntryFailStep
    \/ CloseOkStep
    \/ CloseFailStep

SpecIsolate == InitIsolate /\ [][NextIsolate]_vars

\* the dist variant (cumulative stop): AAA has a position, the entry of BBB
\* is in progress; no signal, no failing gateway call.  The dist variant
\* reads no equity: startingEquity is not used by its actions.
DistCloseStep ==
    \/ \E h \in closeTimers : CloseTimerFire(h)
    \/ \E run \in runs, v \in Sizes : CloseSizeRead(run, v)
    \/ \E run \in runs : CloseOrderOk(run)
    \/ \E run \in runs : CloseWake(run)
    \/ \E run \in runs : DistFinalizeAdvance(run)
    \/ \E run \in runs, closePnl \in DistClosePnls : DistFinalizeNet(run, closePnl)

NextDist ==
    \/ Tick_
    \/ EntryOkStep
    \/ DistCloseStep

SpecDist == InitPair /\ [][NextDist]_vars

\* one trade from its entry to its close: the entry of AAA is in progress
\* after the first poll (its refresh is in flight and may return any snapshot
\* of AAA); no signal, no failing gateway call
InitTrade == Is(AfterFirstPoll(<<Snap("AAA", ShNow)>>))

NextTrade ==
    \/ Tick_
    \/ EntryOkStep
    \/ CloseOkStep

SpecTrade == InitTrade /\ [][NextTrade]_vars

\* time passes while a timer is pending, also beyond the horizon of Tick_:
\* a timer that was set comes due
TimerWait ==
    /\ ~exited /\ mainPc = "running"
    /\ ~TimerDue
    /\ now < MaxTicks * Tick \/ entryTimers \cup closeTimers # {}
    /\ Commit([Cur EXCEPT !.now = @ + Tick])

\* one position from its creation, with fair scheduling: every gateway call
\* in flight returns or fails, the clock advances, a due timer fires; no
\* signal
NextLive ==
    \/ TimerWait
    \/ CloseOkStep
    \/ CloseFailStep

\* the steps of a closePosition invocation before the balance read of its
\* finalizePosition, and the close timer callback
CloseLoopStep ==
    \/ \E h \in closeTimers : CloseTimerFire(h)
    \/ \E run \in runs, v \in Sizes : CloseSizeRead(run, v)
    \/ \E run \in runs : CloseSizeThrow(run)
    \/ \E run \in runs : CloseOrderOk(run)
    \/ \E run \in runs : CloseOrderFail(run)
    \/ \E run \in runs : CloseWake(run)
    \/ \E run \in runs : FinalizeAdvance(run)
    \/ \E run \in runs : FinalizeQueryFail(run)

\* the balance read of a finalizePosition settles
BalanceStep ==
    \/ \E run \in runs, e \in Equities : FinalizeBalance(run, e)
    \/ \E run \in runs : FinalizeBalanceThrow(run)

\* a balance read is in flight: the guard of FinalizeBalance
BalancePending == ~exited /\ \E run \in runs : run.pc = "balance"

\* weak fairness of the clock, of the close steps and of
\* the balance read; the last one is written out, with BalancePending for
\* ENABLED <<BalanceStep>>_vars
FairLive ==
    /\ WF_vars(TimerWait)
    /\ WF_vars(CloseLoopStep)
    /\ ([]<>(~BalancePending) \/ []<><<BalanceStep>>_vars)

SpecLive == InitClose /\ [][NextLive]_vars /\ FairLive

\* one position; the only gateway call that fails is the balance read of
\* finalizePosition; no signal
NextUnread ==
    \/ Tick_
    \/ CloseOkStep
    \/ \E run \in runs : FinalizeBalanceThrow(run)

SpecUnread == InitClose /\ [][NextUnread]_vars

\* ------------------------------------------- functions applied on their own
\* A function of the program is applied to arguments drawn from a bounded
\* set: fnIn holds the arguments from the start, fnOut the result.
Applying(fn) == IsSome(fnIn) /\ Val(fnIn).fn = fn /\ ~IsSome(fnOut)
Applied(fn) == IsSome(fnIn) /\ Val(fnIn).fn = fn /\ IsSome(fnOut)
Arguments(fn, args) == Is([Loaded EXCEPT !.fnIn = Some([fn |-> fn, arg |-> args])])
Result(v) == Commit([Cur EXCEPT !.fnOut = Some(v)])

\* lists returned by the ticker endpoint, for the selection: rates of absolute
\* value 50, 50 and 60; event times in ms, in seconds, unparseable, absent
ListRates == {FUNDING_THRESHOLD, 0 - FUNDING_THRESHOLD, FUNDING_THRESHOLD + 10}
ListTimes == {MsTime(3 * Tick), SecTime((2 * Tick) \div 1000), BadTime, NoTime}
ListItems == ListRates \X ListTimes
\* the snapshot at place i of a list is of the i-th symbol
ListOf(items) ==
    [i \in 1..Len(items) |->
        Ticker(i, items[i][1], None, None, None, None, items[i][2])]
\* TOP_N snapshots with an event time, of both absolute rates
Filler ==
    [i \in 1..TOP_N |->
        <<IF i % 2 = 0 THEN FUNDING_THRESHOLD ELSE FUNDING_THRESHOLD + 10,
          IF i % 3 = 0 THEN MsTime(Tick) ELSE MsTime(3 * Tick)>>]
ShortLists == {<<>>} \cup {<<a>> : a \in ListItems}
              \cup {<<a, b>> : a, b \in ListItems}
              \cup {<<a, b, c>> : a, b, c \in ListItems}
LongLists == {Filler \o <<a, b, c>> : a, b, c \in ListItems}

InitSelect == \E items \in ShortLists \cup LongLists : Arguments("selection", ListOf(items))

\* pollTickers computes its selection from the list fetched
SelectApply ==
    /\ Applying("selection")
    /\ Result(Selection(fetchTopFundingTickers(Val(fnIn).arg, FETCH_LIMIT)))

NextSelect == SelectApply

SpecSelect == InitSelect /\ [][NextSelect]_vars

\* ------------------------------------------------------------------- claims
\* C1: at every moment no symbol is both armed (a key of schedules) and open
\* (a key of activePositions).
C1_ArmedOrOpenNotBoth ==
    \A sym \in Symbols :
        ~(sym \in DOMAIN schedules /\ sym \in DOMAIN activePositions)

\* C2: when shutdown is invoked more than once, no position receives close
\* orders from more than one of the invocations (a position gets no more
\* close-order submissions than a single invocation gives it).
C2_ShutdownIdempotent ==
    \A id \in DOMAIN closeLog :
        Cardinality(closeLog[id].by \cap ShutdownIds) <= 1

\* C3: a finalizePosition execution that reads an equity E with
\* (S - E) >= 0.03 * S leaves tradingEnabled false and shutdown invoked; over
\* all finalizePosition executions the breach path invokes shutdown once.
C3_BreachHaltsOnce ==
    /\ shutdownCalls["breach"] <= 1
    /\ (breachSeen # {}) => (tradingEnabled = FALSE /\ shutdownCalls["breach"] = 1)

\* the finalizePosition executions of both symbols read a breaching equity
C3_Witness ==
    /\ breachSeen = Symbols
    /\ tradingEnabled = FALSE
    /\ shutdownCalls["breach"] = 1

\* C4: tradingEnabled starts true and never goes from false back to true.
C4_OneWayLatch ==
    /\ tradingEnabled = TRUE
    /\ [][(tradingEnabled = FALSE) => (tradingEnabled' = FALSE)]_vars

\* the flag is false and a later finalizePosition has run its breach check
C4_Witness ==
    /\ tradingEnabled = FALSE
    /\ runs = {}
    /\ shutdowns = EmptyMap
    /\ DOMAIN activePositions = {}
    /\ posSeq = Cardinality(Symbols)

\* C5: from the moment tradingEnabled is false no entry order is submitted
\* and no position record is created, also by an openPosition that was
\* waiting for its snapshot refresh or its order when the flag changed.
C5_NoEntryAfterHalt ==
    [][(tradingEnabled = FALSE) =>
          /\ \A task \in opens' : (task.pc = "order") => (task \in opens)
          /\ posSeq' = posSeq]_vars

\* a step that stored the snapshots of resp (every PollOk(p, resp) step is
\* one: the test comes first in the formulas below because it is cheap)
Stored(resp) ==
    \A i \in 1..Len(resp) :
        /\ resp[i].symbol \in DOMAIN latestTickers'
        /\ latestTickers'[resp[i].symbol] = resp[i]

\* the selection of a poll cycle whose fetch returned resp
SelectionOf(resp) == Selection(fetchTopFundingTickers(resp, FETCH_LIMIT))

\* the snapshot qualifies for arming at time t: rate at the threshold, fire
\* time (event - 5 s) in the future and at most 5 s away
ArmableAt(ticker, t) ==
    LET ft == parseFundingTimestamp(ticker.nextFundingTime)
    IN  /\ Abs(ticker.fundingRate) >= FUNDING_THRESHOLD
        /\ IsSome(ft)
        /\ Val(ft) - PRE_FUNDING_MS > t
        /\ Val(ft) - PRE_FUNDING_MS - t <= PRE_FUNDING_MS

\* C6: after every completed poll cycle a symbol of the cycle's selection is
\* armed exactly if its snapshot qualifies (|rate| >= 0.005, fire time in the
\* future and at most 5 s away); a symbol armed earlier is unarmed otherwise.
C6_ArmedIffQualifies ==
    [][\A p \in polls \ polls', resp \in Responses :
          (Stored(resp) /\ PollOk(p, resp)) =>
             \A i \in 1..Len(SelectionOf(resp)) :
                LET ticker == SelectionOf(resp)[i]
                IN  (ticker.symbol \in DOMAIN schedules') <=> ArmableAt(ticker, now)]_vars

\* scheduleTrade meets a symbol armed for T1 with a qualifying snapshot whose
\* event time T2 is in the future and differs from T1
RearmCase(ticker) ==
    LET ft == parseFundingTimestamp(ticker.nextFundingTime)
    IN  /\ ticker.symbol \in DOMAIN schedules
        /\ IsSome(ft)
        /\ Val(ft) > now
        /\ Abs(ticker.fundingRate) >= FUNDING_THRESHOLD
        /\ schedules[ticker.symbol].fundingTime # Val(ft)

\* the timer scheduleTrade would install for the snapshot
TimerFor(ticker) ==
    LET ft == Val(parseFundingTimestamp(ticker.nextFundingTime))
    IN  [sym |-> ticker.symbol, fundingTime |-> ft, at |-> ft - PRE_FUNDING_MS]

\* C7 as stated: in the re-arm case the timer for T1 is cancelled and a timer
\* for T2 - 5 s is installed.
C7_RearmInstallsTimer ==
    [][\A p \in polls \ polls', resp \in Responses :
          (Stored(resp) /\ PollOk(p, resp)) =>
             \A i \in 1..Len(SelectionOf(resp)) :
                LET ticker == SelectionOf(resp)[i]
                IN  RearmCase(ticker) =>
                       /\ schedules[ticker.symbol].openTimer \notin entryTimers'
                       /\ TimerFor(ticker) \in entryTimers']_vars

\* C7 amended: in the re-arm case the timer for T1 is cancelled and never
\* runs (a timer that runs is the one its symbol is armed with); a timer for
\* T2 - 5 s is installed exactly if that fire time is in the future and at
\* most 5 s away, otherwise the symbol is left unarmed with no timer, and
\* when the fire time is already reached openPosition is started at once.
C7_RearmWithinWindow ==
    [][/\ \A p \in polls \ polls', resp \in Responses :
             (Stored(resp) /\ PollOk(p, resp)) =>
                \A i \in 1..Len(SelectionOf(resp)) :
                   LET ticker == SelectionOf(resp)[i]
                       sym == ticker.symbol
                   IN  RearmCase(ticker) =>
                          /\ schedules[sym].openTimer \notin entryTimers'
                          /\ IF ArmableAt(ticker, now)
                             THEN /\ TimerFor(ticker) \in entryTimers'
                                  /\ sym \in DOMAIN schedules'
                                  /\ schedules'[sym] =
                                        [fundingTime |-> TimerFor(ticker).fundingTime,
                                         openTimer |-> TimerFor(ticker)]
                             ELSE /\ sym \notin DOMAIN schedules'
                                  /\ \A h \in entryTimers' : h.sym # sym
                                  /\ (TimerFor(ticker).at <= now /\ OpenGuard(Cur, sym))
                                        => \E task \in opens' \ opens :
                                              /\ task.sym = sym
                                              /\ task.fundingTime =
                                                    TimerFor(ticker).fundingTime
       /\ \A h \in entryTimers \ entryTimers' :
             EntryTimerFire(h) =>
                /\ h.sym \in DOMAIN schedules
                /\ schedules[h.sym].openTimer = h]_vars

\* a symbol is armed for T2, the timer for the T1 it replaced is gone
C7_Witness ==
    \E sym \in DOMAIN replaced :
        /\ sym \in DOMAIN schedules
        /\ schedules[sym].fundingTime # replaced[sym]
        /\ schedules[sym].openTimer \in entryTimers
        /\ \A h \in entryTimers : h.sym = sym => h = schedules[sym].openTimer

\* the run of the same closePosition execution after a step
SameRun(run, r2) == r2.sym = run.sym /\ r2.by = run.by /\ r2.pos = run.pos

\* C8: in a close loop an order is submitted for each attempt whose reading
\* is > 0 and the loop stops at the first reading of 0; when the k-th reading
\* is the first 0, k - 1 orders were submitted.
C8_StopsAtFlat ==
    [][\A run \in runs \ runs', v \in Sizes :
          CloseSizeRead(run, v) =>
             IF v > 0
             THEN \E r2 \in runs' : SameRun(run, r2) /\ r2.pc = "order"
                                    /\ r2.attempt = run.attempt
             ELSE /\ \A r2 \in runs' : SameRun(run, r2) => r2.pc \in FinPcs
                  /\ run.allPos => run.streak = run.attempt - 1]_vars

\* C9: a close loop whose every reading was > 0 submits exactly 5 close
\* orders before finalizePosition runs.
C9_CapFive ==
    \A run \in runs :
        (run.pc \in FinPcs /\ run.allPos) => run.streak = MAX_CLOSE_ATTEMPTS

\* C10: over every trigger (close timer, signal shutdown, breach shutdown) a
\* position receives at most 5 open-quantity queries and 5 close orders.
C10_AtMostFiveAttempts ==
    \A id \in DOMAIN closeLog :
        /\ closeLog[id].queries <= MAX_CLOSE_ATTEMPTS
        /\ closeLog[id].orders <= MAX_CLOSE_ATTEMPTS

\* the list has an event time at place i
HasEventTime(list, i) == IsSome(parseFundingTimestamp(list[i].nextFundingTime))
EventTime(list, i) == Val(parseFundingTimestamp(list[i].nextFundingTime))

\* C11: the selection of a poll cycle has at most 10 elements, in descending
\* order of absolute funding rate; among equal absolute rates the event
\* times ascend (a snapshot whose event time cannot be read comes last).
C11_SelectionOrdered ==
    Applied("selection") =>
        LET out == Val(fnOut)
        IN  /\ Len(out) <= 10
            /\ \A i, j \in 1..Len(out) :
                  i < j =>
                     /\ Abs(out[i].fundingRate) >= Abs(out[j].fundingRate)
                     /\ (Abs(out[i].fundingRate) = Abs(out[j].fundingRate)) =>
                           /\ HasEventTime(out, j) => HasEventTime(out, i)
                           /\ (HasEventTime(out, i) /\ HasEventTime(out, j)) =>
                                 EventTime(out, i) <= EventTime(out, j)

\* a list of more than 10 snapshots with an event time was cut to 10, and a
\* tie of absolute rates was put in the order of the event times
C11_Witness ==
    /\ Applied("selection")
    /\ Len(Val(fnOut)) = 10
    /\ Len(SelectSeq(Val(fnIn).arg, LAMBDA t : t.nextFundingTime.kind # "none")) > 10
    /\ \E i, j \in 1..Len(Val(fnOut)) :
          /\ i < j
          /\ Val(fnOut)[i].symbol > Val(fnOut)[j].symbol
          /\ Abs(Val(fnOut)[i].fundingRate) = Abs(Val(fnOut)[j].fundingRate)
          /\ EventTime(Val(fnOut), i) < EventTime(Val(fnOut), j)

\* the openPosition invocations of a symbol that are past the guard
Entering(tasks, sym) == {task \in tasks : task.sym = sym}

\* per symbol: one invocation past the guard at most, it holds the marker,
\* and none while the symbol has a position record
EntryExclusive(tasks, marked, positions) ==
    \A sym \in Symbols :
        /\ Cardinality(Entering(tasks, sym)) <= 1
        /\ (Entering(tasks, sym) # {}) <=> (sym \in marked)
        /\ (Entering(tasks, sym) # {}) => (sym \notin DOMAIN positions)

\* C12: per symbol at most one openPosition invocation is past its guard, no
\* entry order is submitted while the symbol has a position record, and the
\* fires that arrive while an entry is in progress or a position is open
\* start no further invocation: an invocation starts only for a symbol with
\* no marker and no position, submits one order at most and creates one
\* position at most.
C12_EntryIdempotent ==
    /\ EntryExclusive(opens, openingSymbols, activePositions)
    /\ [][/\ EntryExclusive(opens', openingSymbols', activePositions')
          /\ \A task \in opens' \ opens :
                IF task.pc = "refresh"
                THEN /\ task.sym \notin openingSymbols
                     /\ task.sym \notin DOMAIN activePositions
                ELSE /\ task.pc = "order"
                     /\ \E t0 \in opens \ opens' : t0.sym = task.sym /\ t0.pc = "refresh"
                     /\ task.sym \notin DOMAIN activePositions
          /\ \A sym \in (DOMAIN activePositions') \ (DOMAIN activePositions) :
                /\ \E t0 \in opens \ opens' : t0.sym = sym /\ t0.pc = "order"
                /\ posSeq' = posSeq + 1]_vars

\* a fire for a symbol was turned away at the guard, and the symbol has the
\* one position that was created
C12_Witness ==
    \E sym \in guardReturns :
        /\ sym \in DOMAIN activePositions
        /\ posSeq = 1

\* a finalizePosition invocation that is suspended before the step and has
\* returned after it
FinalizeReturned(run, after) ==
    /\ run.pc \in FinPcs
    /\ ~\E r2 \in after : SameRun(run, r2)

\* C13: when a finalizePosition invocation that started with a position
\* record returns, the symbol has no position record and no pending close
\* timer, on every path: queries that failed, a balance read that failed, no
\* breach, and the breach path that awaits shutdown().
C13_FinalizeClears ==
    [][\A run \in runs \ runs' :
          FinalizeReturned(run, runs')
              => /\ run.sym \notin DOMAIN activePositions'
                 /\ \A h \in closeTimers' : h.sym # run.sym]_vars

\* a gateway call failed on the way, a breach made finalizePosition await
\* shutdown(), and every invocation has returned with the record gone
C13_Witness ==
    /\ faults > 0
    /\ shutdownCalls["breach"] = 1
    /\ runs = {}
    /\ "AAA" \notin DOMAIN activePositions
    /\ posSeq = 1

\* the closePosition invocations that shutdown invocation id awaits
AwaitedBy(rs, id) == {r \in rs : r.by = id}

\* C14: a shutdown() invocation first stops the poll and monitor intervals
\* and cancels every armed entry (no schedule and no entry timer is left when
\* it reaches its first await), then closes the positions one at a time (it
\* never awaits two close procedures at once), and returns only when the
\* close procedure it awaited has returned and no position is left unvisited.
C14_ShutdownOrder ==
    [][\A id \in ShutdownIds :
          /\ (shutdownCalls'[id] = shutdownCalls[id] + 1)
                => /\ ~pollHandle' /\ ~monitorHandle'
                   /\ schedules' = EmptyMap
                   /\ entryTimers' = {}
          /\ Cardinality(AwaitedBy(runs', id)) <= 1
          /\ (id \in DOMAIN shutdowns /\ id \notin DOMAIN shutdowns')
                => /\ AwaitedBy(runs', id) = {}
                   /\ \A sym \in DOMAIN activePositions' :
                         activePositions'[sym].id <= shutdowns[id].cursor]_vars

\* a shutdown() invocation started while an entry was armed and two
\* positions were open, and it is closing the second position
C14_Witness ==
    \E id \in DOMAIN shutdowns :
        /\ shutdowns[id].cursor = 2
        /\ shutdowns[id].cancelled > 0
        /\ AwaitedBy(runs, id) # {}

\* the close-retry loop of a closePosition invocation is still running
InLoop(run) == run.pc \notin FinPcs

\* the finalizePosition invocations that start in a step find no close-retry
\* loop still running for their position
FinalizeFollowsLoop(before, after) ==
    \A r1 \in after \ before : r1.pc = "sumEntry"
        => \A r2 \in after : r2.pos = r1.fin => ~InLoop(r2)

\* C15: per symbol the lifecycle is ordered: a position record and its close
\* timer appear only in the step that confirms the entry order of that
\* symbol; finalizePosition starts only when no close-retry loop of that
\* position is still running; and the breach check acts (flag cleared) only
\* in the step that follows the equity read of a finalizePosition, which
\* comes after its execution and funding reads.
C15_LifecycleOrdered ==
    [][/\ FinalizeFollowsLoop(runs, runs')
       /\ \A sym \in (DOMAIN activePositions') \ (DOMAIN activePositions) :
             /\ \E task \in opens \ opens' : task.sym = sym /\ task.pc = "order"
             /\ activePositions'[sym].closeTimer \in closeTimers'
       /\ (tradingEnabled /\ ~tradingEnabled')
             => \E run \in runs \ runs' : run.pc = "balance"]_vars

\* ------------------------------------------------------------ order sizing
\* quantities in 1/1000 of a unit; the filters of an instrument are positive
QtyScale == 1000
\* reference prices in USD: the requested quantity is TRADE_NOTIONAL_USD / price
SizePrices == {50, 100, 250, 1000}
QtySteps == {1, 10, 100, 1000}
MinOrderQtys == {1, 10, 100, 1000, 5000, 10000}

\* rawQty = TRADE_NOTIONAL_USD / referencePrice
RawQty(price) == (TRADE_NOTIONAL_USD * QtyScale) \div price

\* Math.ceil(minOrderQty / qtyStep - 1e-9) on exact quantities
CeilDiv(a, b) == (a + b - 1) \div b

\* normaliseQty(rawQty, filters): the quantity of the order, or the sizing
\* error when the computed quantity is below the minimum
normaliseQty(rawQty, minOrderQty, qtyStep) ==
    LET units == rawQty \div qtyStep
        minUnits == CeilDiv(minOrderQty, qtyStep)
        adjustedUnits == Max(units, minUnits)
        qty == adjustedUnits * qtyStep
    IN  IF qty < minOrderQty
        THEN [error |-> TRUE, qty |-> 0]
        ELSE [error |-> FALSE, qty |-> qty]

InitSize ==
    \E price \in SizePrices, minOrderQty \in MinOrderQtys, qtyStep \in QtySteps :
        Arguments("normaliseQty", [rawQty |-> RawQty(price),
                                   minOrderQty |-> minOrderQty, qtyStep |-> qtyStep])

\* prepareLimitOrder: the quantity of the entry order
SizeApply ==
    /\ Applying("normaliseQty")
    /\ Result(normaliseQty(Val(fnIn).arg.rawQty, Val(fnIn).arg.minOrderQty,
                           Val(fnIn).arg.qtyStep))

NextSize == SizeApply

SpecSize == InitSize /\ [][NextSize]_vars

\* the requested quantity conformed down to the quantity step
ConformedDown(rawQty, qtyStep) == (rawQty \div qtyStep) * qtyStep

\* C16: when the requested quantity (500 USD / reference price) conformed
\* down to the quantity step is below the minimum order quantity, order
\* preparation fails with the sizing error (and so no entry order is
\* submitted and no position is recorded).
C16_SizingError ==
    Applied("normaliseQty")
        => LET a == Val(fnIn).arg
           IN  (ConformedDown(a.rawQty, a.qtyStep) < a.minOrderQty) => Val(fnOut).error

\* ----------------------------------------------- net PnL applied on its own
InitNet ==
    \E entryPnl \in SummaryPnls, closePnl \in SummaryPnls,
       entryFee \in SummaryFees, closeFee \in SummaryFees, fundingFee \in FundingFees :
        Arguments("netPnl", [entryPnl |-> entryPnl, closePnl |-> closePnl,
                             entryFee |-> entryFee, closeFee |-> closeFee,
                             fundingFee |-> fundingFee])

NetApply ==
    /\ Applying("netPnl")
    /\ LET a == Val(fnIn).arg
       IN  Result(NetPnl(a.entryPnl, a.closePnl, a.entryFee, a.closeFee, a.fundingFee))

NextNet == NetApply

SpecNet == InitNet /\ [][NextNet]_vars

\* C17: the net PnL of a closed trade is its gross trade PnL minus the entry
\* and exit fees minus the funding fee: the net plus the fees plus the
\* funding fee gives back the gross, and gross 12.00, fees 1.50, funding
\* fee 0.80 give 9.70.
C17_NetPnl ==
    Applied("netPnl")
        => LET a == Val(fnIn).arg
               gross == a.entryPnl + a.closePnl
               fees == a.entryFee + a.closeFee
           IN  /\ Val(fnOut) + fees + a.fundingFee = gross
               /\ (gross = 1200 /\ fees = 150 /\ a.fundingFee = 80) => Val(fnOut) = 970

\* the example of the claim was computed
C17_Witness ==
    /\ Applied("netPnl")
    /\ Val(fnIn).arg.entryPnl + Val(fnIn).arg.closePnl = 1200
    /\ Val(fnIn).arg.entryFee + Val(fnIn).arg.closeFee = 150
    /\ Val(fnIn).arg.fundingFee = 80
    /\ Val(fnOut) = 970

\* C18: in the dist variant dailyPnl is the sum of the net PnL of the closed
\* trades, the net PnL of a position added exactly once; the strategy is
\* halted (flag cleared, shutdown() invoked) by the finalize that brings
\* dailyPnl to -50.00 or below, and never while dailyPnl is above -50.00.
C18_CumulativeStop ==
    [][/\ \A pos \in DOMAIN netLog'.adds : netLog'.adds[pos] <= 1
       /\ dailyPnl' = netLog'.once
       /\ (tradingEnabled /\ ~tradingEnabled')
             => (dailyPnl' <= DAILY_STOP_LOSS /\ shutdownCalls'["breach"] = 1)
       /\ (tradingEnabled /\ dailyPnl' # dailyPnl /\ dailyPnl' <= DAILY_STOP_LOSS)
             => (~tradingEnabled' /\ shutdownCalls'["breach"] = 1)]_vars

\* the entry orders in flight have the side the validated rate asks for
EntryDirection(tasks) ==
    \A task \in tasks : task.pc = "order"
        => LET rate == Val(task.ticker).fundingRate
           IN  /\ rate > 0 => task.side = "Sell"
               /\ rate < 0 => task.side = "Buy"

\* the close orders in flight: opposite to the side of the position of the
\* invocation, reduce-only, for the quantity read in the attempt
CloseDirection(rs) ==
    \A run \in rs : run.pc = "order"
        => /\ run.order.side \in {"Buy", "Sell"}
           /\ run.order.side # run.side
           /\ run.order.reduceOnly
           /\ run.read > 0
           /\ run.order.qty = run.read

\* C19: an entry order is a Sell when the rate validated at fire time is
\* positive and a Buy when it is negative, the position takes the side of
\* its entry order, and every close order submitted for the position has the
\* opposite side, is reduce-only and asks for the open quantity read in that
\* attempt.
C19_OrderDirection ==
    /\ EntryDirection(opens) /\ CloseDirection(runs)
    /\ [][/\ EntryDirection(opens') /\ CloseDirection(runs')
          /\ \A sym \in (DOMAIN activePositions') \ (DOMAIN activePositions) :
                \E task \in opens \ opens' :
                    /\ task.sym = sym /\ task.pc = "order"
                    /\ activePositions'[sym].side = task.side
          /\ \A run \in runs' \ runs :
                (run.sym \in DOMAIN activePositions
                    /\ activePositions[run.sym].id = run.pos)
                    => run.side = activePositions[run.sym].side]_vars

\* a position entered long on a negative rate has a reduce-only Sell order
\* in flight for the quantity just read
C19_Witness ==
    \E run \in runs :
        /\ run.pc = "order" /\ run.side = "Buy"
        /\ run.order = [side |-> "Sell", qty |-> 3, reduceOnly |-> TRUE]
        /\ run.sym \in DOMAIN latestTickers
        /\ latestTickers[run.sym].fundingRate < 0

\* the snapshot an openPosition invocation uses: the refreshed one, or the
\* one it read from latestTickers when the refresh gave nothing
UsedSnapshot(task, refreshed) == Coalesce(refreshed, task.ticker)

\* the snapshot is missing or its absolute rate is below the threshold
BelowThreshold(snapshot) ==
    ~IsSome(snapshot) \/ Abs(Val(snapshot).fundingRate) < FUNDING_THRESHOLD

\* the invocation for sym ended without an order and without a position
EntrySkipped(sym) ==
    /\ Entering(opens', sym) = {}
    /\ activePositions' = activePositions
    /\ posSeq' = posSeq

\* C20: an entry order is in flight only on a snapshot (the refreshed one, or
\* the cached one when the refresh failed) whose absolute funding rate is at
\* least 0.005; when the snapshot used is below the threshold or missing,
\* openPosition submits no order and records no position.
C20_ThresholdAtFire ==
    [][/\ \A task \in opens' : task.pc = "order"
             => /\ IsSome(task.ticker)
                /\ Abs(Val(task.ticker).fundingRate) >= FUNDING_THRESHOLD
       /\ \A task \in opens \ opens' : task.pc = "refresh" =>
             /\ \A t \in SnapsOf(task.sym) :
                   (BelowThreshold(UsedSnapshot(task, Some(t))) /\ OpenRefreshed(task, t))
                       => EntrySkipped(task.sym)
             /\ (BelowThreshold(UsedSnapshot(task, None)) /\ OpenRefreshFail(task))
                   => EntrySkipped(task.sym)
             /\ \A task2 \in Entering(opens', task.sym) :
                   \/ \E t \in SnapsOf(task.sym) :
                         task2.ticker = UsedSnapshot(task, Some(t)) /\ OpenRefreshed(task, t)
                   \/ task2.ticker = UsedSnapshot(task, None) /\ OpenRefreshFail(task)]_vars

\* the refresh of the first entry returned a rate below the threshold (no
\* poll cycle ran since): no order, no position
C20_Witness ==
    /\ pollCount = 0 /\ polls = {}
    /\ "AAA" \in DOMAIN latestTickers
    /\ Abs(latestTickers["AAA"].fundingRate) < FUNDING_THRESHOLD
    /\ Entering(opens, "AAA") = {}
    /\ posSeq = 0

\* the symbols of the selection of a poll cycle whose fetch returned resp
SelectedSymbols(resp) == {SelectionOf(resp)[i].symbol : i \in 1..Len(SelectionOf(resp))}

\* C21: after every poll cycle that completes successfully every symbol in
\* schedules is in that cycle's selection: an armed symbol that left the
\* selection has no schedule and no pending entry timer any more, and the
\* position records are as they were.
C21_DroppedDisarmed ==
    [][\A p \in polls \ polls', resp \in Responses :
          (Stored(resp) /\ PollOk(p, resp)) =>
             /\ DOMAIN schedules' \subseteq SelectedSymbols(resp)
             /\ \A sym \in (DOMAIN schedules) \ SelectedSymbols(resp) :
                   /\ sym \notin DOMAIN schedules'
                   /\ \A h \in entryTimers' : h.sym # sym
             /\ activePositions' = activePositions]_vars

\* before its timer was due, AAA (armed while its position is open) was
\* disarmed by a cycle that completed without it; its position is still there
C21_Witness ==
    /\ now = 0 /\ faults = 0
    /\ pollCount = 1 /\ polls = {}
    /\ latestTickers["AAA"] = Snap("AAA", ShArm)
    /\ schedules = EmptyMap /\ entryTimers = {}
    /\ "AAA" \in DOMAIN activePositions
    /\ "AAA" \notin guardReturns

\* C22: a poll cycle whose fetch fails changes nothing: latestTickers,
\* schedules and their timers, activePositions, openingSymbols and
\* tradingEnabled are as before, no openPosition starts, no other fetch is
\* issued by the cycle, and the poll interval stays installed.
C22_FailedPollSkipped ==
    [][\A p \in polls \ polls' :
          (faults' = faults + 1) =>
             /\ UNCHANGED <<latestTickers, schedules, entryTimers, activePositions,
                            closeTimers, openingSymbols, tradingEnabled, opens>>
             /\ polls' = polls \ {p}
             /\ pollCount' = pollCount
             /\ pollHandle' = pollHandle]_vars

\* a fetch failed while AAA was armed and an entry was in progress: both are
\* still there and the interval is still installed
C22_Witness ==
    /\ faults = 1
    /\ polls = {} /\ pollCount = 1
    /\ "AAA" \in DOMAIN schedules
    /\ openingSymbols # {}
    /\ pollHandle /\ tradingEnabled

\* the symbols whose entry, close or finalize takes this step
StepSymbols == {o.sym : o \in opens \ opens'} \cup {r.sym : r \in runs \ runs'}

SameFor(t) ==
    /\ (t \in DOMAIN schedules') = (t \in DOMAIN schedules)
    /\ t \in DOMAIN schedules => schedules'[t] = schedules[t]
    /\ (t \in DOMAIN activePositions') = (t \in DOMAIN activePositions)
    /\ t \in DOMAIN activePositions => activePositions'[t] = activePositions[t]
    /\ (t \in openingSymbols') = (t \in openingSymbols)

\* C23: a step in which a gateway call of the entry, close or finalize of a
\* symbol fails leaves the schedule, the position record and the opening
\* marker of every other symbol as they were and the poll timer installed;
\* a shutdown invocation returns only when the close procedure was started for
\* every position record there is, whatever errors its closes met.
C23_FailureIsolated ==
    [][/\ faults' = faults + 1 =>
             /\ \A t \in Symbols \ StepSymbols : SameFor(t)
             /\ pollHandle' = pollHandle
       /\ \A id \in DOMAIN shutdowns \ DOMAIN shutdowns' :
             \A t \in DOMAIN activePositions' :
                 activePositions'[t].id <= shutdowns[id].cursor]_vars

\* the breach shutdown met an error while closing the position of AAA and
\* went on to the position of BBB, whose close it now awaits
C23_Witness ==
    /\ "breach" \in DOMAIN shutdowns
    /\ shutdowns["breach"].errors > 0
    /\ \E r \in runs : r.sym = "BBB" /\ r.by = "breach"
    /\ "BBB" \in DOMAIN activePositions
    /\ shutdowns["breach"].cursor = activePositions["BBB"].id
    /\ "AAA" \notin DOMAIN activePositions
    /\ pollHandle = FALSE

\* C24: a finalizePosition that prints the PnL summary of a position and
\* evaluates the breach test for it is the first to do so since the record
\* of that position was created.
C24_FinalizedOnce ==
    [][\A r \in runs \ runs' :
          (r.pc = "balance" /\ faults' = faults /\ r.fin \in DOMAIN closeLog)
             => /\ closeLog[r.fin].summaries = 0
                /\ closeLog[r.fin].checks = 0]_vars

\* the close order requests of position record id that return in this step
OrdersReturned(id) == {r \in runs \ runs' : r.pc = "order" /\ r.pos = id /\ faults' = faults}

\* C25: while a position record stays in the table its side, quantity, entry
\* price, event time, open timestamp and entry order reference keep their
\* values; its list of exit order references only grows, and it grows in a
\* step exactly by one reference for the close order request that returned.
C25_RecordFrame ==
    [][\A sym \in DOMAIN activePositions \cap DOMAIN activePositions' :
          LET old == activePositions[sym]
              new == activePositions'[sym]
          IN  new.id = old.id =>
                 /\ new.side = old.side
                 /\ new.qty = old.qty
                 /\ new.entryPrice = old.entryPrice
                 /\ new.fundingTime = old.fundingTime
                 /\ new.openedAt = old.openedAt
                 /\ new.entryOrderLinkId = old.entryOrderLinkId
                 /\ old.closeOrderLinkIds \subseteq new.closeOrderLinkIds
                 /\ Cardinality(new.closeOrderLinkIds \ old.closeOrderLinkIds)
                       = Cardinality(OrdersReturned(old.id))]_vars

\* the record of AAA, created at time 0, holds two exit order references
\* after a close order request that failed in between
C25_Witness ==
    /\ "AAA" \in DOMAIN activePositions
    /\ Cardinality(activePositions["AAA"].closeOrderLinkIds) = 2
    /\ activePositions["AAA"].openedAt = 0
    /\ now > 0
    /\ faults > 0

\* C26: while main() has not passed its balance read (and for ever when the
\* read failed) no equity is recorded, no poll timer is installed and no poll
\* cycle was started; whenever the poll timer is installed or a poll cycle was
\* started the starting equity is recorded and the limit is 0.03 times it
\* (the limit is kept in 1/100 cent, the equity in cents); once recorded,
\* neither value changes.
C26_EquityWrittenOnce ==
    /\ [](mainPc = "init" =>
             /\ ~IsSome(startingEquity) /\ drawdownLimitUsd = 0
             /\ ~pollHandle /\ polls = {} /\ pollCount = 0)
    /\ []((pollHandle \/ polls # {} \/ pollCount > 0) =>
             /\ IsSome(startingEquity)
             /\ drawdownLimitUsd = 3 * Val(startingEquity))
    /\ [][IsSome(startingEquity) =>
             /\ startingEquity' = startingEquity
             /\ drawdownLimitUsd' = drawdownLimitUsd]_vars

\* two poll cycles after the startup, the second still in flight, an entry
\* timer armed: the equity and the limit are those of the startup
C26_Witness ==
    /\ mainPc = "running" /\ pollHandle
    /\ pollCount = 1 /\ polls = {1}
    /\ now > 0
    /\ schedules # EmptyMap
    /\ startingEquity = Some(StartEquity)
    /\ drawdownLimitUsd = 3 * StartEquity

\* position record number id is in the table
Recorded(id) == \E sym \in DOMAIN activePositions : activePositions[sym].id = id

\* C27: the position record that was stored (the first one, the only one of
\* SpecLive) is eventually removed; a
\* closePosition invocation never makes more than MAX_CLOSE_ATTEMPTS loop
\* iterations, goes from its loop to finalizePosition or to its return and
\* never back, and every invocation that started has eventually returned (or
\* the process has exited).
C27_EventuallyFinalized ==
    /\ Recorded(1) ~> ~Recorded(1)
    /\ [](\A r \in runs : r.attempt <= MAX_CLOSE_ATTEMPTS)
    /\ [][\A r \in runs, r2 \in runs' :
             (r.by = r2.by /\ r.pos = r2.pos /\ r.pc \in FinPcs) => r2.pc \in FinPcs]_vars
    /\ (runs # {}) ~> (runs = {} \/ exited)

\* the position of AAA is gone after a close that met a failing call: its
\* timer fired, its invocation returned, its finalize removed the record
C27_Witness ==
    /\ posSeq = 1
    /\ activePositions = EmptyMap
    /\ runs = {}
    /\ closeTimers = {}
    /\ faults > 0
    /\ ~exited
    /\ now >= 3 * Tick

\* the event time of a snapshot, in ms (0 when it has none)
EventOf(ticker) ==
    LET ft == parseFundingTimestamp(ticker.nextFundingTime)
    IN  IF IsSome(ft) THEN Val(ft) ELSE 0

\* scheduleTrade goes past its early returns for this snapshot: the rate
\* qualifies, the event time is in the future and the symbol is not armed for
\* that event time
Decides(ticker) ==
    /\ Abs(ticker.fundingRate) >= FUNDING_THRESHOLD
    /\ EventOf(ticker) > now
    /\ ~(ticker.symbol \in DOMAIN schedules
         /\ schedules[ticker.symbol].fundingTime = EventOf(ticker))

PendingFor(sym) == {h \in entryTimers' : h.sym = sym}
StartedFor(sym) == {o \in opens' \ opens : o.sym = sym}

\* what scheduleTrade leaves behind for a snapshot with wait w
DecidedBy(ticker, w) ==
    LET sym == ticker.symbol
    IN  /\ w > 5000 =>
              /\ sym \notin DOMAIN schedules'
              /\ PendingFor(sym) = {}
              /\ StartedFor(sym) = {}
        /\ (0 < w /\ w <= 5000) =>
              /\ sym \in DOMAIN schedules'
              /\ schedules'[sym].fundingTime = EventOf(ticker)
              /\ PendingFor(sym) = {schedules'[sym].openTimer}
              /\ schedules'[sym].openTimer.at = now + w
              /\ StartedFor(sym) = {}
        /\ w <= 0 =>
              /\ sym \notin DOMAIN schedules'
              /\ PendingFor(sym) = {}
              /\ \/ \E o \in StartedFor(sym) : o.fundingTime = EventOf(ticker)
                 \/ sym \in guardReturns'
                 \/ ~tradingEnabled

\* C28: in a completed poll cycle, for every snapshot of the selection that
\* scheduleTrade decides on, with w = (event time - 5 s) - now: w > 5 s leaves
\* the symbol without schedule, timer and entry; 0 < w <= 5 s leaves exactly
\* one pending timer for it, due at now + w; w <= 0 leaves no timer and
\* openPosition was invoked for that event time.  And no entry starts, in any
\* step, more than 5 s before the event time it was started for.
C28_ArmDecision ==
    [][/\ \A p \in polls \ polls', resp \in Responses :
             (Stored(resp) /\ PollOk(p, resp)) =>
                \A i \in 1..Len(SelectionOf(resp)) :
                   Decides(SelectionOf(resp)[i]) =>
                      DecidedBy(SelectionOf(resp)[i],
                                (EventOf(SelectionOf(resp)[i]) - 5000) - now)
       /\ \A o \in opens' \ opens : now' >= o.fundingTime - 5000]_vars

\* the first poll started the entry of AAA at once (event in 2.5 s); the
\* second one, at the same time, found the event of AAA 12.5 s away and left
\* it unarmed, and armed BBB (event in 7.5 s) with a timer due in 2.5 s
C28_Witness ==
    /\ now = 0 /\ polls = {}
    /\ \E o \in opens : o.sym = "AAA" /\ o.fundingTime = 2500
    /\ latestTickers["AAA"] = Snap("AAA", ShFar)
    /\ "AAA" \notin DOMAIN schedules
    /\ "BBB" \in DOMAIN schedules
    /\ entryTimers = {[sym |-> "BBB", fundingTime |-> 7500, at |-> 2500]}

\* the position records stored in this step
Created == {sym \in DOMAIN activePositions' :
               \/ sym \notin DOMAIN activePositions
               \/ activePositions[sym].id # activePositions'[sym].id}

\* the closePosition invocations the close timer callback starts in this step
TimerStarted == {r \in runs' \ runs :
                    /\ r.by = "timer"
                    /\ \A r0 \in runs : ~(r0.by = "timer" /\ r0.pos = r.pos)}

\* C29: the close timer of a position record is installed when the record is
\* stored, with delay max(event time + 5 s - now, 500 ms), a positive delay;
\* a closePosition invocation started by the close timer starts no earlier
\* than 5 s after the event time of its position.
C29_CloseTimerDelay ==
    [][/\ \A sym \in Created :
             LET position == activePositions'[sym]
                 delay == position.closeTimer.at - now'
             IN  /\ position.closeTimer \in closeTimers'
                 /\ delay = Max(position.fundingTime + 5000 - now', 500)
                 /\ delay > 0
       /\ \A r \in TimerStarted :
             /\ r.sym \in DOMAIN activePositions
             /\ activePositions[r.sym].id = r.pos
             /\ now >= activePositions[r.sym].fundingTime + 5000]_vars

\* the entry of AAA (event at 2.5 s) was confirmed at 7.5 s, its close timer
\* was set with the floor of 500 ms and has started the close
C29_Witness ==
    /\ "AAA" \in DOMAIN activePositions
    /\ activePositions["AAA"].fundingTime = 2500
    /\ activePositions["AAA"].openedAt = 7500
    /\ activePositions["AAA"].closeTimer.at = 8000
    /\ \E r \in runs : r.by = "timer" /\ r.pos = activePositions["AAA"].id
    /\ closeTimers = {}

\* the reference price of a close attempt as stated: ask for a buy-to-close,
\* bid for a sell-to-close, then mark, then last, then the entry price
StatedReferencePrice(tickerOpt, closeSide, entryPrice) ==
    IF IsSome(tickerOpt)
    THEN LET t == Val(tickerOpt)
             quote == IF closeSide = "Buy" THEN t.askPrice ELSE t.bidPrice
         IN  Coalesce(quote, Coalesce(t.markPrice, Coalesce(t.lastPrice, Some(entryPrice))))
    ELSE Some(entryPrice)

\* C30: in a close attempt that read an open quantity > 0 the reference price
\* closePosition finds is the ask (buy-to-close) or bid (sell-to-close) of the
\* latest snapshot, else its mark, else its last, else the entry price of the
\* position; with a positive entry price the attempt submits a close order.
C30_ReferenceFallback ==
    [][\A run \in runs \ runs', v \in Sizes \ {0} :
          CloseSizeRead(run, v) =>
             /\ CloseReferencePrice(MapGet(latestTickers, run.sym), run.closeSide,
                                    run.entryPrice)
                   = StatedReferencePrice(MapGet(latestTickers, run.sym), run.closeSide,
                                          run.entryPrice)
             /\ run.entryPrice > 0 =>
                   \E r2 \in runs' : SameRun(run, r2) /\ r2.pc = "order"
                                     /\ r2.order.qty = v]_vars

\* snapshot a ranks above snapshot b: larger absolute rate, or the same
\* absolute rate and an earlier event time (both event times resolvable)
RanksAbove(a, b) ==
    \/ Abs(a.fundingRate) > Abs(b.fundingRate)
    \/ /\ Abs(a.fundingRate) = Abs(b.fundingRate)
       /\ Val(parseFundingTimestamp(a.nextFundingTime))
             < Val(parseFundingTimestamp(b.nextFundingTime))

Resolvable(t) == IsSome(parseFundingTimestamp(t.nextFundingTime))

\* C31: the selection consists of fetched snapshots with a resolvable event
\* time, at most 10 of them; a fetched snapshot with a resolvable event time
\* is left out only when the selection is full, and then it ranks above none
\* of the selected ones.
C31_SelectionBest ==
    Applied("selection") =>
        LET in == Val(fnIn).arg
            out == Val(fnOut)
            chosen == {out[i] : i \in 1..Len(out)}
            fetched == {in[i] : i \in 1..Len(in)}
        IN  /\ Len(out) <= 10
            /\ chosen \subseteq fetched
            /\ \A t \in chosen : Resolvable(t)
            /\ \A t \in fetched \ chosen :
                  Resolvable(t) =>
                     /\ Len(out) = 10
                     /\ \A u \in chosen : ~RanksAbove(t, u)

\* C32: a step in which the balance read of a finalizePosition fails makes no
\* breach check (none is observed, no shutdown() is invoked), leaves
\* tradingEnabled and the starting equity as they were, and removes the
\* position record of the symbol with its close timer; the invocation returns.
C32_BalanceFailureNeutral ==
    [][\A r \in runs \ runs' :
          (r.pc = "balance" /\ faults' = faults + 1) =>
             /\ tradingEnabled' = tradingEnabled
             /\ startingEquity' = startingEquity
             /\ drawdownLimitUsd' = drawdownLimitUsd
             /\ shutdownCalls' = shutdownCalls
             /\ breachSeen' = breachSeen
             /\ r.sym \notin DOMAIN activePositions'
             /\ \A h \in closeTimers' : h.pos # r.pos
             /\ \A r2 \in runs' : ~SameRun(r, r2)]_vars

\* the balance read of the finalize of AAA failed (no other call can fail in
\* SpecUnread): the record is gone, trading is still enabled, shutdown() was
\* never invoked and no breach was seen
C32_Witness ==
    /\ faults = 1
    /\ posSeq = 1
    /\ activePositions = EmptyMap
    /\ runs = {}
    /\ tradingEnabled
    /\ startingEquity = Some(StartEquity)
    /\ \A id \in ShutdownIds : shutdownCalls[id] = 0
    /\ breachSeen = {}

\* ------------------------------------------ funding fee applied on its own
THIRTY_MIN_MS == 30 * 60 * 1000
FIVE_MIN_MS == 5 * 60 * 1000

\* if (execTime < startTime || execTime > endTime + 5 * 60 * 1000) return 0
AccrualInWindow(execTime, startTime, endTime) ==
    ~(execTime < startTime \/ execTime > endTime + FIVE_MIN_MS)

\* the value one entry of the funding history contributes: execTime is
\* Number(entry.execTime ?? entry.timestamp ?? Date.now()), feeValue is
\* Number(entry.fundingFee ?? entry.funding ?? 0); clock is Date.now() when
\* the entries are processed
AccrualValue(entry, startTime, endTime, clock) ==
    LET raw == IF entry.execTime.kind # "none" THEN entry.execTime
               ELSE IF entry.timestamp.kind # "none" THEN entry.timestamp
               ELSE MsTime(clock)
        feeValue == IF IsSome(entry.fundingFee) THEN Val(entry.fundingFee) ELSE 0
    IN  IF raw.kind = "bad" THEN 0
        ELSE IF AccrualInWindow(raw.v, startTime, endTime) THEN feeValue
        ELSE 0

RECURSIVE SumAccruals(_, _, _, _)
SumAccruals(history, startTime, endTime, clock) ==
    IF history = <<>> THEN 0
    ELSE AccrualValue(Head(history), startTime, endTime, clock)
         + SumAccruals(Tail(history), startTime, endTime, clock)

\* fetchFundingFee(symbol, startTime, endTime): response is the list the
\* history query returned, or None when the query threw
fetchFundingFee(response, startTime, endTime, clock) ==
    IF IsSome(response) THEN SumAccruals(Val(response), startTime, endTime, clock)
    ELSE 0

\* a position opened at FeeOpenedAt is finalized at FeeFinalizeAt; the history
\* query returns FeeDelays later
FeeOpenedAt == 4 * THIRTY_MIN_MS
FeeFinalizeAt == FeeOpenedAt + 20000
FeeDelays == {0, 1500}
\* accrual times around both ends of the interval, unparseable, absent
FeeTimes ==
    {MsTime(FeeOpenedAt - THIRTY_MIN_MS - 1), MsTime(FeeOpenedAt - THIRTY_MIN_MS),
     MsTime(FeeFinalizeAt + FIVE_MIN_MS), MsTime(FeeFinalizeAt + FIVE_MIN_MS + 1),
     BadTime, NoTime}
\* funding fees in cents; None: the entry has no fee field
FeeValues == {Some(80), Some(0 - 30), None}
FeeEntries ==
    {[execTime |-> t, timestamp |-> NoTime, fundingFee |-> f] : t \in FeeTimes, f \in FeeValues}
    \cup {[execTime |-> NoTime, timestamp |-> MsTime(FeeOpenedAt), fundingFee |-> Some(80)]}
FeeHistories ==
    {<<>>} \cup {<<a>> : a \in FeeEntries} \cup {<<a, b>> : a, b \in FeeEntries}
FeeResponses == {None} \cup {Some(h) : h \in FeeHistories}

InitFee ==
    \E response \in FeeResponses, delay \in FeeDelays :
        Arguments("fundingFee", [response |-> response, openedAt |-> FeeOpenedAt,
                                 finalizeAt |-> FeeFinalizeAt,
                                 clock |-> FeeFinalizeAt + delay])

\* finalizePosition: fetchFundingFee(symbol, position.openedAt - 30 min, Date.now())
FeeApply ==
    /\ Applying("fundingFee")
    /\ LET a == Val(fnIn).arg
       IN  Result(fetchFundingFee(a.response, a.openedAt - THIRTY_MIN_MS, a.finalizeAt,
                                  a.clock))

NextFee == FeeApply

SpecFee == InitFee /\ [][NextFee]_vars

\* the time an accrual is reported for: its execTime, else its timestamp
ReportedTime(entry) ==
    IF entry.execTime.kind # "none" THEN entry.execTime ELSE entry.timestamp

\* the accruals of a history whose reported time lies in the interval from
\* 30 min before the open to 5 min after the finalize
RECURSIVE StatedFee(_, _, _)
StatedFee(history, openedAt, finalizeAt) ==
    IF history = <<>> THEN 0
    ELSE LET e == Head(history)
             t == ReportedTime(e)
             inside == /\ t.kind = "ms"
                       /\ openedAt - 1800000 <= t.v
                       /\ t.v <= finalizeAt + 300000
         IN  (IF inside /\ IsSome(e.fundingFee) THEN Val(e.fundingFee) ELSE 0)
             + StatedFee(Tail(history), openedAt, finalizeAt)

\* C33: the funding fee of a closed trade is the sum of the accruals returned
\* whose time t satisfies open timestamp - 30 min <= t <= finalize time + 5 min;
\* every other accrual contributes 0 and a failed query gives 0.
C33_FundingFeeWindow ==
    Applied("fundingFee") =>
        LET a == Val(fnIn).arg
        IN  Val(fnOut) = IF IsSome(a.response)
                         THEN StatedFee(Val(a.response), a.openedAt, a.finalizeAt)
                         ELSE 0

\* -------------------------------- execution summaries applied on their own
\* variant: every reference of the list is queried
AllIds(orderLinkIds, seen) ==
    SelectSeq(orderLinkIds, LAMBDA id : id # 0)

\* Array.from(new Set(orderLinkIds.filter(Boolean))): the empty reference
\* (0) is dropped, a repeated one is kept at its first place
RECURSIVE UniqueIds(_, _)
UniqueIds(orderLinkIds, seen) ==
    IF orderLinkIds = <<>> THEN <<>>
    ELSE IF Head(orderLinkIds) = 0 \/ Head(orderLinkIds) \in seen
    THEN UniqueIds(Tail(orderLinkIds), seen)
    ELSE <<Head(orderLinkIds)>>
         \o UniqueIds(Tail(orderLinkIds), seen \cup {Head(orderLinkIds)})

RECURSIVE SumExecFee(_), SumExecPnl(_)
\* executions.map(e => Number(e.execFee ?? 0)).reduce(+)
SumExecFee(executions) ==
    IF executions = <<>> THEN 0
    ELSE Coalesce(Head(executions).execFee, Some(0))[1] + SumExecFee(Tail(executions))
\* executions.map(e => e.execType === "Trade" ? Number(e.execPnl ?? 0) : 0).reduce(+)
SumExecPnl(executions) ==
    IF executions = <<>> THEN 0
    ELSE (IF Head(executions).execType = "Trade"
          THEN Coalesce(Head(executions).execPnl, Some(0))[1] ELSE 0)
         + SumExecPnl(Tail(executions))

\* the summary of one order: outcome is the list getOrderExecutions returned,
\* or None when it threw (caught: zeros)
OrderSummary(outcome) ==
    IF IsSome(outcome)
    THEN [fee |-> Abs(SumExecFee(Val(outcome))), tradePnl |-> SumExecPnl(Val(outcome))]
    ELSE [fee |-> 0, tradePnl |-> 0]

RECURSIVE ReduceSummaries(_, _)
\* summaries.reduce((acc, s) => ({fee: acc.fee + s.fee, tradePnl: ...}), zeros)
ReduceSummaries(ids, outcomes) ==
    IF ids = <<>> THEN [fee |-> 0, tradePnl |-> 0]
    ELSE LET s == OrderSummary(outcomes[Head(ids)])
             rest == ReduceSummaries(Tail(ids), outcomes)
         IN  [fee |-> s.fee + rest.fee, tradePnl |-> s.tradePnl + rest.tradePnl]

\* summarizeExecutions(orderLinkIds); outcomes[id] is what the query for id gives
summarizeExecutions(orderLinkIds, outcomes) ==
    ReduceSummaries(UniqueIds(orderLinkIds, {}), outcomes)

\* finalizePosition: grossPnl and totalFees of the entry and close summaries
FinalizeSums(entryOrderLinkId, closeOrderLinkIds, outcomes) ==
    LET entrySummary == summarizeExecutions(<<entryOrderLinkId>>, outcomes)
        closeSummary == summarizeExecutions(closeOrderLinkIds, outcomes)
    IN  [grossPnl |-> entrySummary.tradePnl + closeSummary.tradePnl,
         totalFees |-> entrySummary.fee + closeSummary.fee]

\* order references: 1 is the entry order, 2 and 3 are close orders
SumEntryId == 1
SumCloseIds == {2, 3}
SumCloseLists ==
    {<<>>} \cup {<<a>> : a \in SumCloseIds} \cup {<<a, b>> : a, b \in SumCloseIds}
    \cup {<<a, b, c>> : a, b, c \in SumCloseIds}
\* what the execution query returns for an order: it threw, no execution, one
\* trade execution, a trade execution and a funding execution
Execution(type, fee, pnl) == [execType |-> type, execFee |-> fee, execPnl |-> pnl]
SumOutcomes ==
    {None, Some(<<>>), Some(<<Execution("Trade", Some(70), Some(0 - 4770))>>),
     Some(<<Execution("Trade", Some(80), Some(1200)),
            Execution("Funding", None, Some(500))>>)}

InitSum ==
    \E closeIds \in SumCloseLists,
       outcomes \in [{SumEntryId} \cup SumCloseIds -> SumOutcomes] :
        Arguments("summary", [entryId |-> SumEntryId, closeIds |-> closeIds,
                              outcomes |-> outcomes])

SumApply ==
    /\ Applying("summary")
    /\ LET a == Val(fnIn).arg
       IN  Result(FinalizeSums(a.entryId, a.closeIds, a.outcomes))

NextSum == SumApply

SpecSum == InitSum /\ [][NextSum]_vars

\* the sum of a field of the order summaries over a set of references
RECURSIVE FeeOver(_, _), PnlOver(_, _)
FeeOver(ids, outcomes) ==
    IF ids = {} THEN 0
    ELSE LET id == CHOOSE x \in ids : TRUE
         IN  OrderSummary(outcomes[id]).fee + FeeOver(ids \ {id}, outcomes)
PnlOver(ids, outcomes) ==
    IF ids = {} THEN 0
    ELSE LET id == CHOOSE x \in ids : TRUE
         IN  OrderSummary(outcomes[id]).tradePnl + PnlOver(ids \ {id}, outcomes)

\* C34: the gross PnL and the total fees of a closed trade are the sums over
\* the entry order and the distinct close order references, each counted
\* once; an order whose execution query failed counts 0 in both, the others
\* count in full.
C34_SummedOnce ==
    Applied("summary") =>
        LET a == Val(fnIn).arg
            refs == {a.entryId} \cup {a.closeIds[i] : i \in 1..Len(a.closeIds)}
            failed == {id \in refs : ~IsSome(a.outcomes[id])}
        IN  /\ Val(fnOut).grossPnl = PnlOver(refs \ failed, a.outcomes)
            /\ Val(fnOut).totalFees = FeeOver(refs \ failed, a.outcomes)

\* a close reference recorded twice, the query of the other close order
\* failed, the entry order and the repeated close order were summed once
C34_Witness ==
    /\ Applied("summary")
    /\ Val(fnIn).arg.closeIds = <<2, 3, 2>>
    /\ ~IsSome(Val(fnIn).arg.outcomes[3])
    /\ Val(fnIn).arg.outcomes[1] = Some(<<Execution("Trade", Some(70), Some(0 - 4770))>>)
    /\ Val(fnIn).arg.outcomes[2] = Some(<<Execution("Trade", Some(80), Some(1200)),
                                         Execution("Funding", None, Some(500))>>)
    /\ Val(fnOut) = [grossPnl |-> 0 - 3570, totalFees |-> 150]

\* an openPosition invocation that is suspended before the step and has
\* returned after it
OpenReturned(task, after) == \A t2 \in after : t2.sym # task.sym
\* the step stored the record of the entry the invocation placed
OpenSucceeded(task, seqBefore, seqAfter, positions) ==
    /\ task.pc = "order"
    /\ seqAfter = seqBefore + 1
    /\ task.sym \in DOMAIN positions
    /\ positions[task.sym].id = seqAfter

\* C35: openingSymbols holds exactly the symbols of the openPosition
\* invocations that passed the guard and have not returned; when an invocation
\* returns the symbol is no longer marked, and unless it stored its record the
\* symbol has no position record and no pending close timer, so the guard of
\* a later invocation for the symbol passes while trading is enabled.
C35_MarkerBracketsEntry ==
    /\ openingSymbols = {task.sym : task \in opens}
    /\ [][/\ openingSymbols' = {task.sym : task \in opens'}
          /\ \A task \in opens :
                OpenReturned(task, opens') =>
                   /\ task.sym \notin openingSymbols'
                   /\ \/ OpenSucceeded(task, posSeq, posSeq', activePositions')
                      \/ /\ task.sym \notin DOMAIN activePositions'
                         /\ \A h \in closeTimers' : h.sym # task.sym
                         /\ posSeq' = posSeq
                         /\ tradingEnabled' =>
                               OpenGuard([openingSymbols |-> openingSymbols',
                                          activePositions |-> activePositions',
                                          tradingEnabled |-> tradingEnabled'],
                                         task.sym)]_vars

\* the entry of BBB that was in progress returned without a position (no
\* position was created since), and BBB is unmarked, without record and
\* without close timer while trading is enabled
C35_Witness ==
    /\ posSeq = 1
    /\ opens = {}
    /\ "BBB" \notin openingSymbols
    /\ "BBB" \notin DOMAIN activePositions
    /\ \A h \in closeTimers : h.sym # "BBB"
    /\ tradingEnabled
    /\ OpenGuard(Cur, "BBB")

\* every pending timer is the one its table names for its symbol
TimersOwned(eTimers, sched, cTimers, positions) ==
    /\ \A h \in eTimers : h.sym \in DOMAIN sched /\ sched[h.sym].openTimer = h
    /\ \A h \in cTimers : h.sym \in DOMAIN positions /\ positions[h.sym].closeTimer = h
    /\ \A sym \in Symbols :
          /\ Cardinality({h \in eTimers : h.sym = sym}) <= 1
          /\ Cardinality({h \in cTimers : h.sym = sym}) <= 1

Halted(calls, pending, id) == calls[id] > 0 /\ id \notin DOMAIN pending

\* C37: when a shutdown() invocation returns, schedules and activePositions
\* are empty, and from then on no entry timer is set and no position record
\* is stored, whatever poll cycle or openPosition invocation was suspended on
\* a request when the shutdown began.
C37_HaltIsFinal ==
    [][\A id \in ShutdownIds :
          /\ (id \in DOMAIN shutdowns /\ id \notin DOMAIN shutdowns')
                => /\ schedules' = EmptyMap
                   /\ activePositions' = EmptyMap
          /\ Halted(shutdownCalls, shutdowns, id)
                => /\ entryTimers' \subseteq entryTimers
                   /\ \A sym \in DOMAIN activePositions' :
                         /\ sym \in DOMAIN activePositions
                         /\ activePositions'[sym].id = activePositions[sym].id]_vars

\* C38: per symbol at most one closePosition invocation is in progress (from
\* its first quantity query to the end of its finalizePosition), whoever
\* started it: the close timer, a signal's shutdown or the breach shutdown.
C38_OneClosePerSymbol ==
    \A sym \in Symbols : Cardinality({run \in runs : run.sym = sym}) <= 1

\* C39: when two poll cycles overlap, the snapshots and the arm and disarm
\* decisions in effect after both fetches returned are those of the cycle
\* that started last: the fetch of an older cycle that returns after the
\* fetch of the newest cycle has returned changes neither schedules nor the
\* pending entry timers, and it replaces no snapshot the newest cycle stored
\* (with main's cycle and the first interval cycle, the only cycles so far,
\* every stored snapshot is one of the newest cycle).
C39_NewestCycleWins ==
    [][\A p \in polls \ polls' :
          (p < pollCount /\ pollCount \notin polls /\ faults' = 0)
             => /\ schedules' = schedules
                /\ entryTimers' = entryTimers
                /\ (pollCount = 1 /\ opens = {}) =>
                      \A sym \in DOMAIN latestTickers :
                         latestTickers'[sym] = latestTickers[sym]]_vars
====
